---- MODULE Spec2Model ----
(***************************************************************************)
(* A model of smart_ptr's shared_ptr / weak_ptr / control_block            *)
(* (src/src/shared_ptr.hpp, src/src/weak_ptr.hpp).                         *)
(*                                                                         *)
(* The live handles form two bags, one of shared_ptr and one of weak_ptr:  *)
(* a handle is its pointer pair and the thread that owns it, and only its  *)
(* owner operates on it.  Control blocks are numbered and never reused.    *)
(* Every atomic read-modify-write or atomic load of a counter is one step  *)
(* of the thread that executes it; the thread-local work between two       *)
(* accesses of shared memory belongs to the step of the access that        *)
(* follows it.                                                             *)
(***************************************************************************)
EXTENDS Integers, FiniteSets, Sequences, Bags, TLC

\* ------------------------------------------------------------------ bounds
NThreads == 2
MaxBlocks == 2
MaxShared == 2
MaxWeak == 2
MaxUnique == 2
MaxObjects == 2

Threads == 1..NThreads
Blocks == 1..MaxBlocks

\* nullptr, for a raw pointer and for a control-block pointer.
Null == 0
\* The resource that `new` returns for control block c is named c; AliasPtr is
\* a pointer to something else (a sub-object), as the aliasing constructor takes.
AliasPtr == MaxBlocks + 1
\* The objects that `new T` returns to a caller who has no control block for
\* them yet: make_unique, make_shared, `new D`.
Objects == (AliasPtr + 1)..(AliasPtr + MaxObjects)

VARIABLES
    sp,             \* the bag of live shared_ptr handles [ptr, cb, owner]
    wp,             \* the bag of live weak_ptr handles [ptr, cb, owner]
    cb_state,       \* control block -> "unallocated" | "allocated" | "deleted"
    use_count,      \* control_block::_use_count
    weak_use_count, \* control_block::_weak_use_count
    cb_ptr,         \* control_block::_ptr
    deleter_calls,  \* control block -> number of _deleter(_ptr) invocations
    frees,          \* control block -> number of `delete this` executions
    pc,             \* thread -> position inside the operation it executes
    cur,            \* thread -> locals of the operation it executes
    fault,          \* "none", or how the process left defined behaviour:
                    \* "terminate" | "null_deref" | "use_after_free" |
                    \* "double_delete"; "ill_formed": the program is rejected
    up,             \* the bag of live unique_ptr handles [ptr]
    raw,            \* the raw pointers to objects that the caller holds
    objects,        \* the objects that `new T` has created
    delete_calls    \* object -> number of invocations of a unique_ptr's
                    \* deleter on it

vars == <<sp, wp, cb_state, use_count, weak_use_count, cb_ptr, deleter_calls,
          frees, pc, cur, fault, up, raw, objects, delete_calls>>

\* The state of shared_ptr, weak_ptr and the control blocks.
sharedVars == <<sp, wp, cb_state, use_count, weak_use_count, cb_ptr, deleter_calls,
                frees, pc, cur, fault>>

\* The state of unique_ptr and of the objects outside control blocks.
uniqueVars == <<up, raw, objects, delete_calls>>

blockVars == <<cb_state, cb_ptr>>

\* --------------------------------------------------------------- helpers
\* A handle with pointer p and control block c that thread t owns.
Handle(p, c, t) == [ptr |-> p, cb |-> c, owner |-> t]

\* No handle (the owner is no thread).
NoHandle == Handle(Null, Null, 0)

\* cb: the control block the operation works on; w: the weak_ptr that lock()
\* or shared_ptr(wp) reads; res: the shared_ptr that lock() returned; obj: the
\* object whose shared_from_this() runs.
NoLocals == [cb |-> Null, w |-> NoHandle, res |-> NoHandle, nothrow |-> FALSE,
             obj |-> Null]

Min(S) == CHOOSE x \in S : \A y \in S : x <= y

Add(B, e) == B (+) SetToBag({e})
Remove(B, e) == B (-) SetToBag({e})

\* The threads inside a construction of a shared_ptr from a weak_ptr: each
\* will add one handle.
Constructing == {t \in Threads : pc[t] \in {"ctor", "inc_ref"}}

\* There is room for one more handle.
SharedRoom == BagCardinality(sp) + Cardinality(Constructing) < MaxShared
WeakRoom == BagCardinality(wp) < MaxWeak
FreeBlocks == {c \in Blocks : cb_state[c] = "unallocated"}

OwnedShared(t) == {h \in BagToSet(sp) : h.owner = t}
OwnedWeak(t) == {w \in BagToSet(wp) : w.owner = t}

\* Thread t may start an operation.
Ready(t) == pc[t] = "idle" /\ fault = "none"

\* Thread t is at position p of an operation.  After an access of a deleted
\* control block or a second deletion of a resource the operations under way
\* run on, and no new one is started.
Running(t, p) == pc[t] = p /\ fault \in {"none", "use_after_free", "double_delete"}

\* The control block c has been deallocated: every access of its members is
\* undefined behaviour.
Dangling(c) == c # Null /\ cb_state[c] = "deleted"

\* The fault state after an access of control block c.
Touch(c) == IF Dangling(c) THEN "use_after_free" ELSE fault

\* -------------------------------------------------- control_block methods
\* A copy that does not count itself: the increment is lost.
inc_ref_lost(c) == use_count

\* ++_use_count
inc_ref(c) ==
    IF Dangling(c) THEN use_count ELSE [use_count EXCEPT ![c] = @ + 1]

\* ++_weak_use_count
inc_wref(c) ==
    IF Dangling(c) THEN weak_use_count ELSE [weak_use_count EXCEPT ![c] = @ + 1]

\* The value `--counter` yields for a counter that holds v.
pre_decrement(v) == v - 1

\* `counter-- == 0`: the test sees the value before the decrement.
drops_to_zero_post(v) == v = 0

\* `--counter == 0` for a counter that holds v.
drops_to_zero(v) == pre_decrement(v) = 0

\* use_count() that returns the other counter.
cb_use_count_weak(c) == weak_use_count[c]

\* control_block::use_count()
cb_use_count(c) == use_count[c]

\* expired() that compares with the wrong sign: never true.
cb_expired_negative(c, z) == IF Dangling(c) THEN z ELSE use_count[c] < 0

\* control_block::expired(); z is what a read of a deleted block yields.
cb_expired(c, z) == IF Dangling(c) THEN z ELSE cb_use_count(c) = 0

\* shared_ptr::use_count() of handle h
shared_use_count(h) == IF h.cb # Null THEN cb_use_count(h.cb) ELSE 0

\* shared_ptr::get() of handle h
shared_get(h) == h.ptr

\* shared_ptr::operator bool() of handle h
shared_bool(h) == h.ptr # Null

\* weak_ptr::use_count() of handle w
weak_use_count_of(w) == IF w.cb # Null THEN cb_use_count(w.cb) ELSE 0

\* weak_ptr::expired() of handle w
weak_expired(w, z) == IF w.cb # Null THEN cb_expired(w.cb, z) ELSE FALSE

\* A dec_ref() that goes on to release the collective weak unit without
\* running the deleter.
ReleaseSharedUnitFirst(t, c, uc) ==
    \E z \in BOOLEAN :
        LET zero == IF Dangling(c) THEN z ELSE drops_to_zero(uc[c]) IN
        /\ use_count' = IF c = Null \/ Dangling(c) THEN uc
                        ELSE [uc EXCEPT ![c] = pre_decrement(@)]
        /\ pc' = [pc EXCEPT ![t] = IF c # Null /\ zero THEN "dec_wref" ELSE "idle"]
        /\ cur' = [cur EXCEPT ![t] = IF c # Null /\ zero
                                     THEN [NoLocals EXCEPT !.cb = c] ELSE NoLocals]
        /\ fault' = Touch(c)

\* `if (_control_block) _control_block->dec_ref()` up to and including the
\* atomic `--_use_count`: the destructor of a shared_ptr whose control block
\* pointer is c, run by thread t.  uc is _use_count of every block as the
\* thread-local part of the step leaves it; a deleted block yields any value.
ReleaseShared(t, c, uc) ==
    \E z \in BOOLEAN :
        LET zero == IF Dangling(c) THEN z ELSE drops_to_zero(uc[c]) IN
        /\ use_count' = IF c = Null \/ Dangling(c) THEN uc
                        ELSE [uc EXCEPT ![c] = pre_decrement(@)]
        /\ pc' = [pc EXCEPT ![t] = IF c # Null /\ zero THEN "deleter" ELSE "idle"]
        /\ cur' = [cur EXCEPT ![t] = IF c # Null /\ zero
                                     THEN [NoLocals EXCEPT !.cb = c] ELSE NoLocals]
        /\ fault' = Touch(c)

\* A dec_wref() that never deletes the control block.
ReleaseWeakKeeps(t, c) ==
    /\ weak_use_count' = IF c = Null \/ Dangling(c) THEN weak_use_count
                         ELSE [weak_use_count EXCEPT ![c] = pre_decrement(@)]
    /\ pc' = [pc EXCEPT ![t] = "idle"]
    /\ cur' = [cur EXCEPT ![t] = NoLocals]
    /\ fault' = Touch(c)

\* `if (_control_block) _control_block->dec_wref()` up to and including the
\* atomic `--_weak_use_count`.
ReleaseWeak(t, c) ==
    \E z \in BOOLEAN :
        LET zero == IF Dangling(c) THEN z ELSE drops_to_zero(weak_use_count[c]) IN
        /\ weak_use_count' = IF c = Null \/ Dangling(c) THEN weak_use_count
                             ELSE [weak_use_count EXCEPT ![c] = pre_decrement(@)]
        /\ pc' = [pc EXCEPT ![t] = IF c # Null /\ zero THEN "delete_this" ELSE "idle"]
        /\ cur' = [cur EXCEPT ![t] = IF c # Null /\ zero
                                     THEN [NoLocals EXCEPT !.cb = c] ELSE NoLocals]
        /\ fault' = Touch(c)

\* ------------------------------------------------------------------ Init
Init ==
    /\ sp = EmptyBag
    /\ wp = EmptyBag
    /\ cb_state = [c \in Blocks |-> "unallocated"]
    /\ use_count = [c \in Blocks |-> 0]
    /\ weak_use_count = [c \in Blocks |-> 0]
    /\ cb_ptr = [c \in Blocks |-> Null]
    /\ deleter_calls = [c \in Blocks |-> 0]
    /\ frees = [c \in Blocks |-> 0]
    /\ pc = [t \in Threads |-> "idle"]
    /\ cur = [t \in Threads |-> NoLocals]
    /\ fault = "none"
    /\ up = EmptyBag
    /\ raw = {}
    /\ objects = {}
    /\ delete_calls = [r \in Objects |-> 0]

\* A dec_ref() that invokes the deleter without the test of _ptr.
DeleterStepUnconditional(t) ==
    /\ Running(t, "deleter")
    /\ LET c == cur[t].cb IN
        /\ deleter_calls' = [deleter_calls EXCEPT ![c] = @ + 1]
        /\ fault' = IF Dangling(c) THEN "use_after_free"
                    ELSE IF deleter_calls[c] >= 1 THEN "double_delete"
                    ELSE fault
    /\ pc' = [pc EXCEPT ![t] = "dec_wref"]
    /\ UNCHANGED <<sp, wp, blockVars, use_count, weak_use_count, frees, cur>>
    /\ UNCHANGED uniqueVars

\* ------------------------------------------------- control_block: steps
\* The rest of dec_ref() after `--_use_count == 0`: `if (_ptr) _deleter(_ptr);`
DeleterStep(t) ==
    /\ Running(t, "deleter")
    /\ \E z \in BOOLEAN :
        LET c == cur[t].cb
            invoke == IF Dangling(c) THEN z ELSE cb_ptr[c] # Null IN
        /\ deleter_calls' = IF invoke THEN [deleter_calls EXCEPT ![c] = @ + 1]
                            ELSE deleter_calls
        /\ fault' = IF Dangling(c) THEN "use_after_free"
                    ELSE IF invoke /\ deleter_calls[c] >= 1 THEN "double_delete"
                    ELSE fault
    /\ pc' = [pc EXCEPT ![t] = "dec_wref"]
    /\ UNCHANGED <<sp, wp, blockVars, use_count, weak_use_count, frees, cur>>
    /\ UNCHANGED uniqueVars

\* The call of dec_wref() that ends dec_ref(): the `--_weak_use_count`.
DecWrefStep(t) ==
    /\ Running(t, "dec_wref")
    /\ ReleaseWeak(t, cur[t].cb)
    /\ UNCHANGED <<sp, wp, blockVars, use_count, deleter_calls, frees>>
    /\ UNCHANGED uniqueVars

\* The rest of dec_wref() after `--_weak_use_count == 0`: `delete this;`
DeleteThisStep(t) ==
    /\ Running(t, "delete_this")
    /\ LET c == cur[t].cb IN
        /\ cb_state' = [cb_state EXCEPT ![c] = "deleted"]
        /\ frees' = [frees EXCEPT ![c] = @ + 1]
        /\ fault' = Touch(c)
    /\ pc' = [pc EXCEPT ![t] = "idle"]
    /\ cur' = [cur EXCEPT ![t] = NoLocals]
    /\ UNCHANGED <<sp, wp, cb_ptr, use_count, weak_use_count, deleter_calls>>
    /\ UNCHANGED uniqueVars

\* ---------------------------------------------------- shared_ptr: steps
\* A constructor whose control block starts with no owner counted.
ConstructFromPointerUncounted(t) ==
    /\ Ready(t)
    /\ SharedRoom /\ FreeBlocks # {}
    /\ \E isnull \in BOOLEAN :
        LET c == Min(FreeBlocks)
            p == IF isnull THEN Null ELSE c IN
        /\ sp' = Add(sp, Handle(p, c, t))
        /\ cb_state' = [cb_state EXCEPT ![c] = "allocated"]
        /\ cb_ptr' = [cb_ptr EXCEPT ![c] = p]
        /\ use_count' = [use_count EXCEPT ![c] = 0]
        /\ weak_use_count' = [weak_use_count EXCEPT ![c] = 1]
    /\ UNCHANGED <<wp, deleter_calls, frees, pc, cur, fault>>
    /\ UNCHANGED uniqueVars

\* shared_ptr(U* p), shared_ptr(U* p, D d) and shared_ptr(nullptr_t, D d): a
\* new control block for p.
ConstructFromPointer(t) ==
    /\ Ready(t)
    /\ SharedRoom /\ FreeBlocks # {}
    /\ \E isnull \in BOOLEAN :
        LET c == Min(FreeBlocks)
            p == IF isnull THEN Null ELSE c IN
        /\ sp' = Add(sp, Handle(p, c, t))
        /\ cb_state' = [cb_state EXCEPT ![c] = "allocated"]
        /\ cb_ptr' = [cb_ptr EXCEPT ![c] = p]
        /\ use_count' = [use_count EXCEPT ![c] = 1]
        /\ weak_use_count' = [weak_use_count EXCEPT ![c] = 1]
    /\ UNCHANGED <<wp, deleter_calls, frees, pc, cur, fault>>
    /\ UNCHANGED uniqueVars

\* shared_ptr(const shared_ptr&), also the way a thread hands a copy to
\* another thread (std::thread(thr, p)): the new handle belongs to `o`.
CopyConstruct(t, owners) ==
    /\ Ready(t)
    /\ SharedRoom
    /\ \E h \in OwnedShared(t), o \in owners :
        /\ sp' = Add(sp, Handle(h.ptr, h.cb, o))
        /\ use_count' = IF h.cb # Null THEN inc_ref(h.cb) ELSE use_count
        /\ fault' = Touch(h.cb)
    /\ UNCHANGED <<wp, blockVars, weak_use_count, deleter_calls, frees, pc, cur>>
    /\ UNCHANGED uniqueVars

\* An aliasing constructor that shares the block without counting itself.
AliasConstructUncounted(t) ==
    /\ Ready(t)
    /\ SharedRoom
    /\ \E h \in OwnedShared(t) :
        /\ sp' = Add(sp, Handle(AliasPtr, h.cb, t))
        /\ use_count' = use_count
        /\ fault' = Touch(h.cb)
    /\ UNCHANGED <<wp, blockVars, weak_use_count, deleter_calls, frees, pc, cur>>
    /\ UNCHANGED uniqueVars

\* shared_ptr(const shared_ptr<U>& sp, T* p): the aliasing constructor.
AliasConstruct(t) ==
    /\ Ready(t)
    /\ SharedRoom
    /\ \E h \in OwnedShared(t) :
        /\ sp' = Add(sp, Handle(AliasPtr, h.cb, t))
        /\ use_count' = IF h.cb # Null THEN inc_ref(h.cb) ELSE use_count
        /\ fault' = Touch(h.cb)
    /\ UNCHANGED <<wp, blockVars, weak_use_count, deleter_calls, frees, pc, cur>>
    /\ UNCHANGED uniqueVars

\* A dynamic_pointer_cast that goes through the aliasing constructor whatever
\* dynamic_cast yields: a failed cast shares the block with a null pointer.
dynamic_pointer_cast_always_shares(t, h, is_a) ==
    LET _p == IF is_a THEN h.ptr ELSE Null IN
    /\ sp' = Add(sp, Handle(_p, h.cb, t))
    /\ use_count' = IF h.cb # Null THEN inc_ref(h.cb) ELSE use_count
    /\ fault' = Touch(h.cb)

\* dynamic_pointer_cast<T>(sp) on the shared_ptr h: `if (auto* _p =
\* dynamic_cast<T*>(sp.get())) return _Sp(sp, _p); return _Sp();`.  is_a says
\* whether the object sp.get() points to is a T; dynamic_cast of a null
\* pointer is null.  The result of a successful cast points to the same
\* object and is made by the aliasing constructor.
dynamic_pointer_cast(t, h, is_a) ==
    LET _p == IF is_a THEN h.ptr ELSE Null IN
    IF _p # Null
    THEN /\ sp' = Add(sp, Handle(_p, h.cb, t))
         /\ use_count' = IF h.cb # Null THEN inc_ref(h.cb) ELSE use_count
         /\ fault' = Touch(h.cb)
    ELSE /\ sp' = Add(sp, Handle(Null, Null, t))
         /\ UNCHANGED <<use_count, fault>>

\* A thread casts one of its shared_ptr handles.
DynamicPointerCast(t) ==
    /\ Ready(t)
    /\ SharedRoom
    /\ \E h \in OwnedShared(t), is_a \in BOOLEAN :
        dynamic_pointer_cast(t, h, is_a)
    /\ UNCHANGED <<wp, blockVars, weak_use_count, deleter_calls, frees, pc, cur>>
    /\ UNCHANGED uniqueVars

\* A move constructor that leaves the source as it was.
MoveConstructKeepsSource(t) ==
    /\ Ready(t)
    /\ SharedRoom
    /\ \E h \in OwnedShared(t) :
        sp' = Add(sp, h)
    /\ UNCHANGED <<wp, blockVars, use_count, weak_use_count, deleter_calls, frees,
                   pc, cur, fault>>
    /\ UNCHANGED uniqueVars

\* shared_ptr(shared_ptr&& sp): the source stays alive, empty.
MoveConstruct(t) ==
    /\ Ready(t)
    /\ SharedRoom
    /\ \E h \in OwnedShared(t) :
        sp' = Add(Add(Remove(sp, h), Handle(Null, Null, t)), h)
    /\ UNCHANGED <<wp, blockVars, use_count, weak_use_count, deleter_calls, frees,
                   pc, cur, fault>>
    /\ UNCHANGED uniqueVars

\* ~shared_ptr()
Destroy(t) ==
    /\ Ready(t)
    /\ \E h \in OwnedShared(t) :
        /\ sp' = Remove(sp, h)
        /\ ReleaseShared(t, h.cb, use_count)
    /\ UNCHANGED <<wp, blockVars, weak_use_count, deleter_calls, frees>>
    /\ UNCHANGED uniqueVars

\* A copy assignment whose temporary does not count itself.
CopyAssignUncounted(t) ==
    /\ Ready(t)
    /\ \E src \in OwnedShared(t), dst \in OwnedShared(t) :
        /\ sp' = Add(Remove(sp, dst), Handle(src.ptr, src.cb, t))
        /\ use_count' = use_count
        /\ fault' = Touch(src.cb)
        /\ pc' = [pc EXCEPT ![t] = "release"]
        /\ cur' = [cur EXCEPT ![t] = [NoLocals EXCEPT !.cb = dst.cb]]
    /\ UNCHANGED <<wp, blockVars, weak_use_count, deleter_calls, frees>>
    /\ UNCHANGED uniqueVars

\* operator=(const shared_ptr& sp): `shared_ptr{sp}.swap(*this)` up to the
\* swap; the temporary, which now holds the target's old pair, is destroyed by
\* ReleaseTemporary.  src and dst may be the same handle.
CopyAssign(t) ==
    /\ Ready(t)
    /\ \E src \in OwnedShared(t), dst \in OwnedShared(t) :
        /\ sp' = Add(Remove(sp, dst), Handle(src.ptr, src.cb, t))
        /\ use_count' = IF src.cb # Null THEN inc_ref(src.cb) ELSE use_count
        /\ fault' = Touch(src.cb)
        /\ pc' = [pc EXCEPT ![t] = "release"]
        /\ cur' = [cur EXCEPT ![t] = [NoLocals EXCEPT !.cb = dst.cb]]
    /\ UNCHANGED <<wp, blockVars, weak_use_count, deleter_calls, frees>>
    /\ UNCHANGED uniqueVars

\* The destructor of the temporary of a copy assignment.
ReleaseTemporary(t) ==
    /\ Running(t, "release")
    /\ ReleaseShared(t, cur[t].cb, use_count)
    /\ UNCHANGED <<sp, wp, blockVars, weak_use_count, deleter_calls, frees>>
    /\ UNCHANGED uniqueVars

\* operator=(shared_ptr&& sp): `shared_ptr{std::move(sp)}.swap(*this)` and the
\* destructor of the temporary.  With the source being the target itself the
\* temporary ends up empty.
MoveAssign(t) ==
    /\ Ready(t)
    /\ \E src \in OwnedShared(t), dst \in OwnedShared(t), self \in BOOLEAN :
        /\ self => src = dst
        /\ ~self => (src # dst \/ CopiesIn(src, sp) >= 2)
        /\ sp' = IF self THEN sp
                 ELSE Add(Add(Remove(Remove(sp, src), dst), Handle(src.ptr, src.cb, t)),
                          Handle(Null, Null, t))
        /\ ReleaseShared(t, IF self THEN Null ELSE dst.cb, use_count)
    /\ UNCHANGED <<wp, blockVars, weak_use_count, deleter_calls, frees>>
    /\ UNCHANGED uniqueVars

\* swap(_ptr, x._ptr); swap(_control_block, x._control_block): the handles a
\* and b after a.swap(b).
swap(a, b) ==
    <<[a EXCEPT !.ptr = b.ptr, !.cb = b.cb], [b EXCEPT !.ptr = a.ptr, !.cb = a.cb]>>

\* shared_ptr::swap(shared_ptr&) on two handles of the thread.
Swap(t) ==
    /\ Ready(t)
    /\ \E a \in OwnedShared(t), b \in OwnedShared(t) :
        /\ a # b \/ CopiesIn(a, sp) >= 2
        /\ sp' = Add(Add(Remove(Remove(sp, a), b), swap(a, b)[1]), swap(a, b)[2])
    /\ UNCHANGED <<wp, blockVars, use_count, weak_use_count, deleter_calls, frees,
                   pc, cur, fault>>
    /\ UNCHANGED uniqueVars

\* A reset() that empties the handle and forgets its control block.
ResetForgets(t) ==
    /\ Ready(t)
    /\ \E h \in OwnedShared(t) :
        sp' = Add(Remove(sp, h), Handle(Null, Null, t))
    /\ UNCHANGED <<wp, blockVars, use_count, weak_use_count, deleter_calls, frees,
                   pc, cur, fault>>
    /\ UNCHANGED uniqueVars

\* reset(): `shared_ptr{}.swap(*this)` and the destructor of the temporary.
Reset(t) ==
    /\ Ready(t)
    /\ \E h \in OwnedShared(t) :
        /\ sp' = Add(Remove(sp, h), Handle(Null, Null, t))
        /\ ReleaseShared(t, h.cb, use_count)
    /\ UNCHANGED <<wp, blockVars, weak_use_count, deleter_calls, frees>>
    /\ UNCHANGED uniqueVars

\* reset(U* p): `shared_ptr{p}.swap(*this)` and the destructor of the temporary.
ResetPointer(t) ==
    /\ Ready(t)
    /\ FreeBlocks # {}
    /\ \E h \in OwnedShared(t) :
        LET c == Min(FreeBlocks) IN
        /\ sp' = Add(Remove(sp, h), Handle(c, c, t))
        /\ cb_state' = [cb_state EXCEPT ![c] = "allocated"]
        /\ cb_ptr' = [cb_ptr EXCEPT ![c] = c]
        /\ weak_use_count' = [weak_use_count EXCEPT ![c] = 1]
        /\ ReleaseShared(t, h.cb, [use_count EXCEPT ![c] = 1])
    /\ UNCHANGED <<wp, deleter_calls, frees>>
    /\ UNCHANGED uniqueVars

\* A reset(p) that lets go of the old pair before it allocates the new
\* control block.
ResetPointerThrowsLate(t) ==
    /\ Ready(t)
    /\ \E h \in OwnedShared(t) :
        /\ sp' = Add(Remove(sp, h), Handle(Null, Null, t))
        /\ use_count' = IF h.cb # Null /\ ~Dangling(h.cb)
                        THEN [use_count EXCEPT ![h.cb] = pre_decrement(@)]
                        ELSE use_count
        /\ pc' = [pc EXCEPT ![t] = "bad_alloc"]
        /\ cur' = [cur EXCEPT ![t] = [NoLocals EXCEPT !.res = h]]
    /\ UNCHANGED <<wp, blockVars, weak_use_count, deleter_calls, frees, fault>>
    /\ UNCHANGED uniqueVars

\* reset(U* p) and reset(U* p, D d) when `new control_block` throws
\* std::bad_alloc: the temporary `shared_ptr{p}` is never constructed, so
\* neither swap nor a destructor runs and the exception leaves reset() for
\* the caller.  res is the handle reset() was called on.
ResetPointerThrows(t) ==
    /\ Ready(t)
    /\ \E h \in OwnedShared(t) :
        /\ pc' = [pc EXCEPT ![t] = "bad_alloc"]
        /\ cur' = [cur EXCEPT ![t] = [NoLocals EXCEPT !.res = h]]
    /\ UNCHANGED <<sp, wp, blockVars, use_count, weak_use_count, deleter_calls, frees,
                   fault>>
    /\ UNCHANGED uniqueVars

\* The caller's handler of std::bad_alloc.
CatchBadAlloc(t) ==
    /\ Running(t, "bad_alloc")
    /\ pc' = [pc EXCEPT ![t] = "idle"]
    /\ cur' = [cur EXCEPT ![t] = NoLocals]
    /\ UNCHANGED <<sp, wp, blockVars, use_count, weak_use_count, deleter_calls, frees,
                   fault>>
    /\ UNCHANGED uniqueVars

\* make_shared<T>(args): `shared_ptr<T>{new T{args}}`.  The object exists
\* before the constructor of the shared_ptr runs `new control_block`, which
\* throws std::bad_alloc when no memory is left (~ok); the exception leaves
\* the constructor and make_shared, and with it the only copy of the pointer.
MakeShared(t) ==
    /\ Ready(t)
    /\ SharedRoom /\ FreeBlocks # {} /\ Objects \ objects # {}
    /\ \E ok \in BOOLEAN :
        LET r == Min(Objects \ objects)
            c == Min(FreeBlocks) IN
        /\ objects' = objects \cup {r}
        /\ sp' = IF ok THEN Add(sp, Handle(r, c, t)) ELSE sp
        /\ cb_state' = IF ok THEN [cb_state EXCEPT ![c] = "allocated"] ELSE cb_state
        /\ cb_ptr' = IF ok THEN [cb_ptr EXCEPT ![c] = r] ELSE cb_ptr
        /\ use_count' = IF ok THEN [use_count EXCEPT ![c] = 1] ELSE use_count
        /\ weak_use_count' = IF ok THEN [weak_use_count EXCEPT ![c] = 1]
                             ELSE weak_use_count
    /\ UNCHANGED <<wp, deleter_calls, frees, pc, cur, fault, up, raw, delete_calls>>

\* ------------------------------------------------------ weak_ptr: steps
\* A weak_ptr constructor that calls inc_ref() where inc_wref() is meant.
WeakFromSharedStrong(t) ==
    /\ Ready(t)
    /\ WeakRoom
    /\ \E h \in OwnedShared(t) :
        /\ wp' = Add(wp, Handle(h.ptr, h.cb, t))
        /\ use_count' = IF h.cb # Null THEN inc_ref(h.cb) ELSE use_count
        /\ fault' = Touch(h.cb)
    /\ UNCHANGED <<sp, blockVars, weak_use_count, deleter_calls, frees, pc, cur>>
    /\ UNCHANGED uniqueVars

\* weak_ptr(shared_ptr<U> const& sp)
WeakFromShared(t) ==
    /\ Ready(t)
    /\ WeakRoom
    /\ \E h \in OwnedShared(t) :
        /\ wp' = Add(wp, Handle(h.ptr, h.cb, t))
        /\ weak_use_count' = IF h.cb # Null THEN inc_wref(h.cb) ELSE weak_use_count
        /\ fault' = Touch(h.cb)
    /\ UNCHANGED <<sp, blockVars, use_count, deleter_calls, frees, pc, cur>>
    /\ UNCHANGED uniqueVars

\* weak_ptr(weak_ptr const& wp); the copy belongs to `o`.
WeakCopy(t, owners) ==
    /\ Ready(t)
    /\ WeakRoom
    /\ \E v \in OwnedWeak(t), o \in owners :
        /\ wp' = Add(wp, Handle(v.ptr, v.cb, o))
        /\ weak_use_count' = IF v.cb # Null THEN inc_wref(v.cb) ELSE weak_use_count
        /\ fault' = Touch(v.cb)
    /\ UNCHANGED <<sp, blockVars, use_count, deleter_calls, frees, pc, cur>>
    /\ UNCHANGED uniqueVars

\* ~weak_ptr()
WeakDestroy(t) ==
    /\ Ready(t)
    /\ \E w \in OwnedWeak(t) :
        /\ wp' = Remove(wp, w)
        /\ ReleaseWeak(t, w.cb)
    /\ UNCHANGED <<sp, blockVars, use_count, deleter_calls, frees>>
    /\ UNCHANGED uniqueVars

\* weak_ptr::swap(weak_ptr&) on two handles of the thread.
WeakSwap(t) ==
    /\ Ready(t)
    /\ \E a \in OwnedWeak(t), b \in OwnedWeak(t) :
        /\ a # b \/ CopiesIn(a, wp) >= 2
        /\ wp' = Add(Add(Remove(Remove(wp, a), b), swap(a, b)[1]), swap(a, b)[2])
    /\ UNCHANGED <<sp, blockVars, use_count, weak_use_count, deleter_calls, frees,
                   pc, cur, fault>>
    /\ UNCHANGED uniqueVars

\* weak_ptr::reset(): `weak_ptr{}.swap(*this)` and the destructor of the
\* temporary.
WeakReset(t) ==
    /\ Ready(t)
    /\ \E w \in OwnedWeak(t) :
        /\ wp' = Add(Remove(wp, w), Handle(Null, Null, t))
        /\ ReleaseWeak(t, w.cb)
    /\ UNCHANGED <<sp, blockVars, use_count, deleter_calls, frees>>
    /\ UNCHANGED uniqueVars

\* A weak_ptr assignment whose temporary takes a strong reference.
WeakAssignStrong(t) ==
    /\ Ready(t)
    /\ \E src \in OwnedWeak(t) \cup OwnedShared(t), dst \in OwnedWeak(t) :
        /\ wp' = Add(Remove(wp, dst), Handle(src.ptr, src.cb, t))
        /\ use_count' = IF src.cb # Null THEN inc_ref(src.cb) ELSE use_count
        /\ fault' = Touch(src.cb)
        /\ pc' = [pc EXCEPT ![t] = "weak_release"]
        /\ cur' = [cur EXCEPT ![t] = [NoLocals EXCEPT !.cb = dst.cb]]
    /\ UNCHANGED <<sp, blockVars, weak_use_count, deleter_calls, frees>>
    /\ UNCHANGED uniqueVars

\* weak_ptr::operator=(const weak_ptr&) and operator=(const shared_ptr<U>&):
\* `weak_ptr{x}.swap(*this)` up to the swap; the temporary, which now holds
\* the target's old pair, is destroyed by WeakReleaseTemporary.  A weak_ptr
\* source and the target may be the same handle.
WeakAssign(t) ==
    /\ Ready(t)
    /\ \E src \in OwnedWeak(t) \cup OwnedShared(t), dst \in OwnedWeak(t) :
        /\ wp' = Add(Remove(wp, dst), Handle(src.ptr, src.cb, t))
        /\ weak_use_count' = IF src.cb # Null THEN inc_wref(src.cb) ELSE weak_use_count
        /\ fault' = Touch(src.cb)
        /\ pc' = [pc EXCEPT ![t] = "weak_release"]
        /\ cur' = [cur EXCEPT ![t] = [NoLocals EXCEPT !.cb = dst.cb]]
    /\ UNCHANGED <<sp, blockVars, use_count, deleter_calls, frees>>
    /\ UNCHANGED uniqueVars

\* The destructor of the temporary of a weak_ptr assignment.
WeakReleaseTemporary(t) ==
    /\ Running(t, "weak_release")
    /\ ReleaseWeak(t, cur[t].cb)
    /\ UNCHANGED <<sp, wp, blockVars, use_count, deleter_calls, frees>>
    /\ UNCHANGED uniqueVars

\* ------------------------------------------- weak_ptr -> shared_ptr: steps
\* weak_ptr::lock(): the `expired()` of `(expired()) ? shared_ptr<T>{} :
\* shared_ptr<T>{*this}`.  An expired weak_ptr yields an empty shared_ptr; the
\* caller then looks at the result.
Lock(t) ==
    /\ Ready(t)
    /\ SharedRoom
    /\ \E w \in OwnedWeak(t), z \in BOOLEAN :
        LET expired == weak_expired(w, z) IN
        /\ sp' = IF expired THEN Add(sp, Handle(Null, Null, t)) ELSE sp
        /\ pc' = [pc EXCEPT ![t] = IF expired THEN "locked" ELSE "ctor"]
        /\ cur' = [cur EXCEPT ![t] =
                      [cb |-> IF expired THEN Null ELSE w.cb, w |-> w,
                       res |-> IF expired THEN Handle(Null, Null, t) ELSE NoHandle,
                       nothrow |-> TRUE, obj |-> Null]]
        /\ fault' = Touch(w.cb)
    /\ UNCHANGED <<wp, blockVars, use_count, weak_use_count, deleter_calls, frees>>
    /\ UNCHANGED uniqueVars

\* A caller constructs shared_ptr<T>(wp) itself (as shared_from_this does).
Promote(t) ==
    /\ Ready(t)
    /\ SharedRoom
    /\ \E w \in OwnedWeak(t) :
        /\ pc' = [pc EXCEPT ![t] = "ctor"]
        /\ cur' = [cur EXCEPT ![t] = [NoLocals EXCEPT !.cb = w.cb, !.w = w]]
    /\ UNCHANGED <<sp, wp, blockVars, use_count, weak_use_count, deleter_calls, frees,
                   fault>>
    /\ UNCHANGED uniqueVars

\* shared_ptr(const weak_ptr<U>& wp): `if (wp.expired()) throw bad_weak_ptr{};`
\* Inside lock(), which is noexcept, the exception ends in std::terminate.
CtorCheck(t) ==
    /\ Running(t, "ctor")
    /\ \E z \in BOOLEAN :
        LET expired == weak_expired(cur[t].w, z) IN
        /\ pc' = [pc EXCEPT ![t] = IF ~expired THEN "inc_ref"
                                   ELSE IF cur[t].nothrow THEN "idle" ELSE "bad_weak_ptr"]
        /\ cur' = [cur EXCEPT ![t] = IF expired THEN NoLocals ELSE @]
        /\ fault' = IF expired /\ cur[t].nothrow THEN "terminate" ELSE Touch(cur[t].cb)
    /\ UNCHANGED <<sp, wp, blockVars, use_count, weak_use_count, deleter_calls, frees>>
    /\ UNCHANGED uniqueVars

\* shared_ptr(const weak_ptr<U>& wp): `_control_block->inc_ref();`.  With a
\* null _control_block the call is undefined: the process dies, or the call
\* does nothing.
CtorIncRef(t) ==
    /\ Running(t, "inc_ref")
    /\ \E survive \in BOOLEAN :
        LET c == cur[t].cb
            new == Handle(cur[t].w.ptr, c, t)
            dies == c = Null /\ ~survive
            returns == cur[t].nothrow /\ ~dies IN
        /\ sp' = IF dies THEN sp ELSE Add(sp, new)
        /\ use_count' = IF c # Null THEN inc_ref(c) ELSE use_count
        /\ fault' = IF dies THEN "null_deref" ELSE Touch(c)
        /\ pc' = [pc EXCEPT ![t] = IF returns THEN "locked" ELSE "idle"]
        /\ cur' = [cur EXCEPT ![t] = IF returns THEN [@ EXCEPT !.res = new] ELSE NoLocals]
    /\ UNCHANGED <<wp, blockVars, weak_use_count, deleter_calls, frees>>
    /\ UNCHANGED uniqueVars

\* enable_shared_from_this<T>::weak_this of an object: the member is
\* initialised empty by the constructor and nothing assigns to it (no
\* constructor of shared_ptr looks for an enable_shared_from_this base).
weak_this(obj) == Handle(Null, Null, 0)

\* t.shared_from_this() on the object that shared_ptr h manages:
\* `return shared_ptr<T>(weak_this);`, the constructor from a weak_ptr.
SharedFromThis(t) ==
    /\ Ready(t)
    /\ SharedRoom
    /\ \E h \in OwnedShared(t) :
        /\ h.cb # Null /\ h.ptr = cb_ptr[h.cb] /\ h.ptr # Null
        /\ pc' = [pc EXCEPT ![t] = "ctor"]
        /\ cur' = [cur EXCEPT ![t] = [NoLocals EXCEPT !.cb = weak_this(h.ptr).cb,
                                                      !.w = weak_this(h.ptr),
                                                      !.obj = h.ptr]]
    /\ UNCHANGED <<sp, wp, blockVars, use_count, weak_use_count, deleter_calls, frees,
                   fault>>
    /\ UNCHANGED uniqueVars

\* observe(): `if (auto spt = gw.lock()) { std::cout << *spt ... }`: the caller
\* of lock() tests the result and reads the object through it.
Observe(t) ==
    /\ Running(t, "locked")
    /\ pc' = [pc EXCEPT ![t] = "idle"]
    /\ cur' = [cur EXCEPT ![t] = NoLocals]
    /\ UNCHANGED <<sp, wp, blockVars, use_count, weak_use_count, deleter_calls, frees,
                   fault>>
    /\ UNCHANGED uniqueVars

\* The caller's handler of bad_weak_ptr.
Catch(t) ==
    /\ Running(t, "bad_weak_ptr")
    /\ pc' = [pc EXCEPT ![t] = "idle"]
    /\ UNCHANGED <<sp, wp, blockVars, use_count, weak_use_count, deleter_calls, frees,
                   cur, fault>>
    /\ UNCHANGED uniqueVars

\* ------------------------------------------------------ owner_before
\* a.owner_before(b) and owner_less()(a, b), for shared_ptr and weak_ptr in all
\* four combinations: `return std::less<>(_control_block, x._control_block);`.
\* The expression constructs a std::less<void> from two pointers, where the
\* call std::less<>()(..., ...) is meant: std::less<void> has no such
\* constructor and does not convert to bool, so a program that instantiates
\* owner_before is rejected and the comparison yields nothing.
OwnerBefore(t) ==
    /\ Ready(t)
    /\ \E a \in OwnedShared(t) \cup OwnedWeak(t), b \in OwnedShared(t) \cup OwnedWeak(t) :
        fault' = "ill_formed"
    /\ UNCHANGED <<sp, wp, blockVars, use_count, weak_use_count, deleter_calls, frees,
                   pc, cur>>
    /\ UNCHANGED uniqueVars

\* ---------------------------------------------------- unique_ptr: steps
\* A unique_ptr whose stored pointer is p.
Unique(p) == [ptr |-> p]

UniqueRoom == BagCardinality(up) < MaxUnique

\* unique_ptr::get()
unique_get(u) == u.ptr

\* unique_ptr::operator bool()
unique_bool(u) == u.ptr # Null

\* `if (_ptr) _deleter(_ptr);` of a unique_ptr whose stored pointer is p.
delete_if_owned(p) ==
    IF p # Null THEN [delete_calls EXCEPT ![p] = @ + 1] ELSE delete_calls

\* make_unique<T>(args): `unique_ptr<T>{new T{args}}`.
MakeUnique(t) ==
    /\ Ready(t)
    /\ UniqueRoom /\ Objects \ objects # {}
    /\ LET r == Min(Objects \ objects) IN
        /\ objects' = objects \cup {r}
        /\ up' = Add(up, Unique(r))
    /\ UNCHANGED <<raw, delete_calls>>
    /\ UNCHANGED sharedVars

\* `unique_ptr<T> u;` and `unique_ptr<T> u(nullptr);`: the defaulted default
\* constructor and `unique_ptr(std::nullptr_t) noexcept { }` initialise no
\* member, and _ptr has no default member initialiser: the stored pointer is
\* whatever the storage held, null or the address of some object or of none.
\* No such handle is made once a deleter has run twice on one address.
UniqueConstructEmpty(t) ==
    /\ Ready(t)
    /\ UniqueRoom
    /\ \A r \in Objects : delete_calls[r] <= 1
    /\ \E v \in {Null} \cup Objects :
        up' = Add(up, Unique(v))
    /\ UNCHANGED <<raw, objects, delete_calls>>
    /\ UNCHANGED sharedVars

\* A release() that behaves as reset(): the deleter runs on the pointer that
\* is handed to the caller.
UniqueReleaseDeletes(t) ==
    /\ Ready(t)
    /\ \E u \in BagToSet(up) :
        /\ up' = Add(Remove(up, u), Unique(Null))
        /\ raw' = raw \cup ({unique_get(u)} \ {Null})
        /\ delete_calls' = delete_if_owned(u.ptr)
    /\ UNCHANGED objects
    /\ UNCHANGED sharedVars

\* unique_ptr::release(): `pointer cp = _ptr; _ptr = nullptr; return cp;`; the
\* caller keeps the returned pointer.
UniqueRelease(t) ==
    /\ Ready(t)
    /\ \E u \in BagToSet(up) :
        /\ up' = Add(Remove(up, u), Unique(Null))
        /\ raw' = raw \cup ({unique_get(u)} \ {Null})
    /\ UNCHANGED <<objects, delete_calls>>
    /\ UNCHANGED sharedVars

\* unique_ptr::reset(pointer p): `if (_ptr) _deleter(_ptr); _ptr = p;` with a
\* pointer p that the caller holds and hands over.
UniqueResetPointer(t) ==
    /\ Ready(t)
    /\ \E u \in BagToSet(up), p \in raw :
        /\ delete_calls' = delete_if_owned(u.ptr)
        /\ up' = Add(Remove(up, u), Unique(p))
        /\ raw' = raw \ {p}
    /\ UNCHANGED objects
    /\ UNCHANGED sharedVars

\* unique_ptr::reset(): `if (_ptr) _deleter(_ptr); _ptr = pointer{};`
UniqueReset(t) ==
    /\ Ready(t)
    /\ \E u \in BagToSet(up) :
        /\ delete_calls' = delete_if_owned(u.ptr)
        /\ up' = Add(Remove(up, u), Unique(Null))
    /\ UNCHANGED <<raw, objects>>
    /\ UNCHANGED sharedVars

\* ~unique_ptr(): `if (_ptr) _deleter(_ptr);`
UniqueDestroy(t) ==
    /\ Ready(t)
    /\ \E u \in BagToSet(up) :
        /\ delete_calls' = delete_if_owned(u.ptr)
        /\ up' = Remove(up, u)
    /\ UNCHANGED <<raw, objects>>
    /\ UNCHANGED sharedVars

\* unique_ptr::operator=(unique_ptr&& up) of include/unique_ptr.hpp:
\* `reset(up.release()); _deleter = up.get_deleter();` for the target a and
\* the source b.  With a and b the same handle, release() empties it and
\* reset(cp) stores the pointer again without a deleter call.
UniqueMoveAssign(t) ==
    /\ Ready(t)
    /\ \E a \in BagToSet(up), b \in BagToSet(up), self \in BOOLEAN :
        LET cp == unique_get(b) IN
        /\ self => a = b
        /\ ~self => (a # b \/ CopiesIn(a, up) >= 2)
        /\ delete_calls' = IF self THEN delete_calls ELSE delete_if_owned(a.ptr)
        /\ up' = IF self THEN up
                 ELSE Add(Add(Remove(Remove(up, a), b), Unique(cp)), Unique(Null))
    /\ UNCHANGED <<raw, objects>>
    /\ UNCHANGED sharedVars

\* unique_ptr::operator=(unique_ptr&& up) of src/unique_ptr.hpp (and of the
\* first edition): `_deleter = up.get_deleter(); _ptr = up.release();`: the
\* target's stored pointer is overwritten.
UniqueMoveAssignOverwrite(t) ==
    /\ Ready(t)
    /\ \E a \in BagToSet(up), b \in BagToSet(up), self \in BOOLEAN :
        LET cp == unique_get(b) IN
        /\ self => a = b
        /\ ~self => (a # b \/ CopiesIn(a, up) >= 2)
        /\ up' = IF self THEN up
                 ELSE Add(Add(Remove(Remove(up, a), b), Unique(cp)), Unique(Null))
    /\ UNCHANGED <<raw, objects, delete_calls>>
    /\ UNCHANGED sharedVars

\* A conversion that reads the pointer with get() and leaves it in the
\* unique_ptr.
SharedFromUniqueGet(t) ==
    /\ Ready(t)
    /\ SharedRoom /\ FreeBlocks # {}
    /\ \E u \in BagToSet(up) :
        LET c == Min(FreeBlocks)
            p == unique_get(u) IN
        /\ up' = up
        /\ sp' = Add(sp, Handle(p, c, t))
        /\ cb_state' = [cb_state EXCEPT ![c] = "allocated"]
        /\ cb_ptr' = [cb_ptr EXCEPT ![c] = p]
        /\ use_count' = [use_count EXCEPT ![c] = 1]
        /\ weak_use_count' = [weak_use_count EXCEPT ![c] = 1]
    /\ UNCHANGED <<wp, deleter_calls, frees, pc, cur, fault, raw, objects, delete_calls>>

\* shared_ptr(unique_ptr<U, D>&& up): `shared_ptr{up.release(),
\* up.get_deleter()}`, a new control block for the released pointer.
SharedFromUnique(t) ==
    /\ Ready(t)
    /\ SharedRoom /\ FreeBlocks # {}
    /\ \E u \in BagToSet(up) :
        LET c == Min(FreeBlocks)
            p == unique_get(u) IN
        /\ up' = Add(Remove(up, u), Unique(Null))
        /\ sp' = Add(sp, Handle(p, c, t))
        /\ cb_state' = [cb_state EXCEPT ![c] = "allocated"]
        /\ cb_ptr' = [cb_ptr EXCEPT ![c] = p]
        /\ use_count' = [use_count EXCEPT ![c] = 1]
        /\ weak_use_count' = [weak_use_count EXCEPT ![c] = 1]
    /\ UNCHANGED <<wp, deleter_calls, frees, pc, cur, fault, raw, objects, delete_calls>>

\* ------------------------------------------- minimal shared_ptr: steps
\* The minimal editions have no control block: a handle is the pair _ptr,
\* _ref_count, and the counter is a std::atomic<long> on the heap.  Counter c
\* is numbered as a control block is (cb_state, use_count); the object that is
\* wrapped when counter c is allocated is named c; deleter_calls counts
\* `delete _ptr` (the type-erased (*_deleter)(_ptr) in the second edition) and
\* frees counts `delete _ref_count`.

\* The two editions.
MinimalEditions == {1, 2}

\* The test that guards `++(*_ref_count)` in the copy constructor:
\* `if (_ref_count)` in the first edition, `if (_ptr)` in the second.
minimal_counts(h, ed) == IF ed = 1 THEN h.cb # Null ELSE h.ptr # Null

\* The test that guards `--(*_ref_count)` in the destructor:
\* `if (_ptr && _ref_count)` in the first edition, `if (_ptr)` in the second.
minimal_owns(h, ed) == IF ed = 1 THEN h.ptr # Null /\ h.cb # Null ELSE h.ptr # Null

\* What the members of a handle hold when no constructor has written them:
\* null, or what a handle in that storage held before.
Stale == {Null} \cup {c \in Blocks : cb_state[c] # "unallocated"}

\* shared_ptr(T* p) for p = new Derived(): allocates the counter with 1.
MinimalConstruct(t) ==
    /\ Ready(t)
    /\ SharedRoom
    /\ FreeBlocks # {}
    /\ LET c == Min(FreeBlocks) IN
        /\ sp' = Add(sp, Handle(c, c, t))
        /\ cb_state' = [cb_state EXCEPT ![c] = "allocated"]
        /\ use_count' = [use_count EXCEPT ![c] = 1]
    /\ UNCHANGED <<wp, weak_use_count, cb_ptr, deleter_calls, frees, pc, cur, fault>>
    /\ UNCHANGED uniqueVars

\* `shared_ptr<T> p;` and `shared_ptr<T> p(nullptr)`: neither constructor
\* initialises a member and the members have no initialiser, so _ptr and
\* _ref_count hold indeterminate values.
MinimalConstructEmpty(t) ==
    /\ Ready(t)
    /\ SharedRoom
    /\ \A c \in Blocks : use_count[c] >= 0
    /\ \E p \in Stale, c \in Stale :
        sp' = Add(sp, Handle(p, c, t))
    /\ UNCHANGED <<wp, cb_state, use_count, weak_use_count, cb_ptr, deleter_calls,
                   frees, pc, cur, fault>>
    /\ UNCHANGED uniqueVars

\* The copy constructor, from a handle of thread t; the copy belongs to
\* thread `to` (an argument of std::thread is copied by the caller).  The
\* members are copied and the counter, if the guard passes, is incremented
\* atomically.
MinimalCopy(t) ==
    /\ Ready(t)
    /\ SharedRoom
    /\ \E h \in OwnedShared(t), to \in Threads, ed \in MinimalEditions :
        /\ sp' = Add(sp, [h EXCEPT !.owner = to])
        /\ h.cb # Null => use_count[h.cb] <= MaxShared
        /\ IF ~minimal_counts(h, ed)
           THEN UNCHANGED <<use_count, fault>>
           ELSE IF h.cb = Null
           THEN use_count' = use_count /\ fault' = "null_deref"
           ELSE IF cb_state[h.cb] # "allocated"
           THEN use_count' = use_count /\ fault' = "use_after_free"
           ELSE use_count' = inc_ref(h.cb) /\ fault' = fault
    /\ UNCHANGED <<wp, cb_state, weak_use_count, cb_ptr, deleter_calls, frees, pc, cur>>
    /\ UNCHANGED uniqueVars

\* ~shared_ptr() of a handle with members h, up to and including the atomic
\* `--(*_ref_count)`; the thread that sees zero goes on to the deletes.
minimal_release(t, h, ed) ==
    IF ~minimal_owns(h, ed)
    THEN UNCHANGED <<use_count, pc, cur, fault>>
    ELSE IF h.cb = Null
    THEN /\ fault' = "null_deref"
         /\ UNCHANGED <<use_count, pc, cur>>
    ELSE \E z \in BOOLEAN :
        LET gone == cb_state[h.cb] # "allocated"
            zero == IF gone THEN z ELSE drops_to_zero(use_count[h.cb]) IN
        /\ use_count' = IF gone THEN use_count
                        ELSE [use_count EXCEPT ![h.cb] = pre_decrement(@)]
        /\ fault' = IF gone THEN "use_after_free" ELSE fault
        /\ pc' = [pc EXCEPT ![t] = IF zero THEN "minimal_delete" ELSE "idle"]
        /\ cur' = [cur EXCEPT ![t] = IF zero
                                     THEN [NoLocals EXCEPT !.cb = h.cb, !.res = h]
                                     ELSE NoLocals]

\* ~shared_ptr() at the end of the lifetime of a handle of thread t.
MinimalDestroy(t) ==
    /\ Ready(t)
    /\ \E h \in OwnedShared(t), ed \in MinimalEditions :
        /\ sp' = Remove(sp, h)
        /\ minimal_release(t, h, ed)
    /\ UNCHANGED <<wp, cb_state, weak_use_count, cb_ptr, deleter_calls, frees>>
    /\ UNCHANGED uniqueVars

\* reset(): `shared_ptr tmp{}; swap(tmp);`: tmp is value-initialised, so
\* both its members are null; after the swap it holds the old members and its
\* destructor runs.
MinimalReset(t) ==
    /\ Ready(t)
    /\ \E h \in OwnedShared(t), ed \in MinimalEditions :
        /\ sp' = Add(Remove(sp, h), Handle(Null, Null, t))
        /\ minimal_release(t, h, ed)
    /\ UNCHANGED <<wp, cb_state, weak_use_count, cb_ptr, deleter_calls, frees>>
    /\ UNCHANGED uniqueVars

\* `delete _ptr; delete _ref_count;` by the thread whose decrement saw zero
\* (the second edition deletes the counter first, then object and deleter).
MinimalDeleteStep(t) ==
    /\ Running(t, "minimal_delete")
    /\ LET h == cur[t].res IN
        /\ deleter_calls' = [deleter_calls EXCEPT ![h.ptr] = @ + 1]
        /\ frees' = [frees EXCEPT ![h.cb] = @ + 1]
        /\ cb_state' = [cb_state EXCEPT ![h.cb] = "deleted"]
        /\ fault' = IF deleter_calls[h.ptr] >= 1 \/ frees[h.cb] >= 1
                    THEN "double_delete" ELSE fault
    /\ pc' = [pc EXCEPT ![t] = "idle"]
    /\ cur' = [cur EXCEPT ![t] = NoLocals]
    /\ UNCHANGED <<sp, wp, use_count, weak_use_count, cb_ptr>>
    /\ UNCHANGED uniqueVars

\* -------------------------------------------------------- specifications
ControlBlockStep(t) ==
    \/ DeleterStep(t)
    \/ DecWrefStep(t)
    \/ DeleteThisStep(t)

\* The operations of shared_ptr that access a counter in their own way: a new
\* block, ++_use_count, --_use_count.
SharedCoreStep(t, owners) ==
    \/ ConstructFromPointer(t)
    \/ CopyConstruct(t, owners)
    \/ Destroy(t)
    \/ Reset(t)

\* The other operations of shared_ptr: they change the pointer pair of a
\* handle of the thread and access the counters as the core operations do.
SharedOtherStep(t) ==
    \/ AliasConstruct(t)
    \/ MoveConstruct(t)
    \/ CopyAssign(t)
    \/ ReleaseTemporary(t)
    \/ MoveAssign(t)
    \/ ResetPointer(t)
    \/ Swap(t)

WeakCoreStep(t, owners) ==
    \/ WeakFromShared(t)
    \/ WeakCopy(t, owners)
    \/ WeakDestroy(t)
    \/ Lock(t)
    \/ Promote(t)
    \/ CtorCheck(t)
    \/ CtorIncRef(t)
    \/ Observe(t)
    \/ Catch(t)

\* Threads that construct, copy, hand over, observe, promote and drop
\* handles: every interleaving of their accesses of the counters.
Next ==
    \E t \in Threads :
        \/ ControlBlockStep(t)
        \/ SharedCoreStep(t, Threads)
        \/ WeakCoreStep(t, Threads)

Spec == Init /\ [][Next]_vars

\* One thread and every operation: each operation runs to its end before the
\* next one starts.
SeqNext ==
    \/ ControlBlockStep(1)
    \/ SharedCoreStep(1, {1})
    \/ SharedOtherStep(1)
    \/ WeakCoreStep(1, {1})
    \/ WeakReset(1)
    \/ WeakSwap(1)

SeqSpec == Init /\ [][SeqNext]_vars

\* Threads that share, copy, assign and drop shared_ptr handles only.
DropNext ==
    \E t \in Threads :
        \/ ControlBlockStep(t)
        \/ SharedCoreStep(t, Threads)
        \/ SharedOtherStep(t)

DropSpec == Init /\ [][DropNext]_vars

\* Threads that make objects with make_shared, copy, hand over and drop the
\* handles, while allocations of control blocks may fail.
AllocNext ==
    \E t \in Threads :
        \/ MakeShared(t)
        \/ ControlBlockStep(t)
        \/ SharedCoreStep(t, Threads)

AllocSpec == Init /\ [][AllocNext]_vars

\* One thread that makes unique_ptr handles, releases, resets and destroys
\* them, turns them into shared_ptr handles, and copies and drops those.
UniqueNext ==
    \/ MakeUnique(1)
    \/ UniqueRelease(1)
    \/ UniqueResetPointer(1)
    \/ UniqueReset(1)
    \/ UniqueDestroy(1)
    \/ SharedFromUnique(1)
    \/ CopyConstruct(1, {1})
    \/ Destroy(1)
    \/ ControlBlockStep(1)

UniqueSpec == Init /\ [][UniqueNext]_vars

\* One thread that constructs, copies, moves, assigns, swaps and drops
\* shared_ptr and weak_ptr handles.
AssignNext ==
    \/ ControlBlockStep(1)
    \/ ConstructFromPointer(1)
    \/ CopyConstruct(1, {1})
    \/ MoveConstruct(1)
    \/ CopyAssign(1)
    \/ ReleaseTemporary(1)
    \/ MoveAssign(1)
    \/ Swap(1)
    \/ Destroy(1)
    \/ WeakFromShared(1)
    \/ WeakSwap(1)
    \/ WeakDestroy(1)

AssignSpec == Init /\ [][AssignNext]_vars

\* One thread and every operation, with owner-based comparisons of its handles.
OwnerNext ==
    \/ SeqNext
    \/ OwnerBefore(1)

OwnerSpec == Init /\ [][OwnerNext]_vars

\* One thread and every operation, with shared_from_this() on the objects its
\* shared_ptr handles manage.
FromThisNext ==
    \/ SeqNext
    \/ SharedFromThis(1)

FromThisSpec == Init /\ [][FromThisNext]_vars

\* An owner (thread 1) that constructs shared_ptr handles, takes weak_ptr
\* handles of them and hands weak_ptr copies to an observer (thread 2); the
\* observer locks and drops its handles while the owner drops its own.
RaceNext ==
    \/ ConstructFromPointer(1)
    \/ WeakFromShared(1)
    \/ WeakCopy(1, {2})
    \/ Destroy(1)
    \/ WeakDestroy(1)
    \/ ControlBlockStep(1)
    \/ Lock(2)
    \/ CtorCheck(2)
    \/ CtorIncRef(2)
    \/ Observe(2)
    \/ Destroy(2)
    \/ WeakDestroy(2)
    \/ ControlBlockStep(2)

RaceSpec == Init /\ [][RaceNext]_vars

\* An owner (thread 1) that constructs, resets and drops shared_ptr handles,
\* takes weak_ptr handles of them and hands weak_ptr copies to an observer
\* (thread 2), which drops them.
LiveNext ==
    \/ ConstructFromPointer(1)
    \/ WeakFromShared(1)
    \/ WeakCopy(1, {2})
    \/ Destroy(1)
    \/ Reset(1)
    \/ WeakDestroy(1)
    \/ ControlBlockStep(1)
    \/ WeakDestroy(2)
    \/ WeakReset(2)
    \/ ControlBlockStep(2)

\* A thread that is inside dec_ref() or dec_wref() is scheduled again: it
\* goes on to the deleter, to the release of the weak unit and to
\* `delete this`.
LiveSpec ==
    /\ Init
    /\ [][LiveNext]_vars
    /\ WF_vars(ControlBlockStep(1))
    /\ WF_vars(ControlBlockStep(2))

\* One thread that constructs and drops shared_ptr handles and constructs,
\* copies, assigns, resets, swaps and drops weak_ptr handles of them.
WeakNext ==
    \/ ControlBlockStep(1)
    \/ ConstructFromPointer(1)
    \/ Destroy(1)
    \/ WeakFromShared(1)
    \/ WeakCopy(1, {1})
    \/ WeakAssign(1)
    \/ WeakReleaseTemporary(1)
    \/ WeakReset(1)
    \/ WeakSwap(1)
    \/ WeakDestroy(1)

WeakSpec == Init /\ [][WeakNext]_vars

\* Threads that construct, copy, hand over, reset and drop shared_ptr handles.
ResetNext ==
    \E t \in Threads :
        \/ ControlBlockStep(t)
        \/ SharedCoreStep(t, Threads)
        \/ ResetPointer(t)

ResetSpec == Init /\ [][ResetNext]_vars

\* One thread that constructs, copies, assigns, resets and drops shared_ptr
\* handles and takes weak_ptr handles of them, while allocations of control
\* blocks inside reset(p) may fail.
ThrowNext ==
    \/ ControlBlockStep(1)
    \/ ConstructFromPointer(1)
    \/ CopyConstruct(1, {1})
    \/ CopyAssign(1)
    \/ ReleaseTemporary(1)
    \/ ResetPointer(1)
    \/ ResetPointerThrows(1)
    \/ CatchBadAlloc(1)
    \/ Destroy(1)
    \/ WeakFromShared(1)
    \/ WeakDestroy(1)

ThrowSpec == Init /\ [][ThrowNext]_vars

\* One thread that constructs, copies, casts and drops shared_ptr handles and
\* takes weak_ptr handles of them.
CastNext ==
    \/ ControlBlockStep(1)
    \/ ConstructFromPointer(1)
    \/ CopyConstruct(1, {1})
    \/ DynamicPointerCast(1)
    \/ Destroy(1)
    \/ WeakFromShared(1)
    \/ WeakDestroy(1)

CastSpec == Init /\ [][CastNext]_vars

\* One thread that makes unique_ptr handles, with an object or without one,
\* and releases, resets and destroys them.
UniqueInitNext ==
    \/ MakeUnique(1)
    \/ UniqueConstructEmpty(1)
    \/ UniqueRelease(1)
    \/ UniqueResetPointer(1)
    \/ UniqueReset(1)
    \/ UniqueDestroy(1)

UniqueInitSpec == Init /\ [][UniqueInitNext]_vars

\* One thread that makes, releases, resets, destroys and converts unique_ptr
\* handles and move-assigns them to each other, with either edition of
\* unique_ptr.
UniqueMoveNext ==
    \/ UniqueNext
    \/ UniqueMoveAssign(1)
    \/ UniqueMoveAssignOverwrite(1)

UniqueMoveSpec == Init /\ [][UniqueMoveNext]_vars

\* Threads that construct, copy (for themselves or for another thread),
\* reset and destroy handles of the minimal shared_ptr.
MinimalNext ==
    \E t \in Threads :
        \/ MinimalConstruct(t)
        \/ MinimalConstructEmpty(t)
        \/ MinimalCopy(t)
        \/ MinimalReset(t)
        \/ MinimalDestroy(t)
        \/ MinimalDeleteStep(t)

MinimalSpec == Init /\ [][MinimalNext]_vars

\* ------------------------------------------------------------- properties
\* No thread is inside an operation on a handle.
Quiescent == \A t \in Threads : pc[t] \in {"idle", "locked", "bad_weak_ptr"}

\* The number of handles of bag B whose control block pointer is c.
Pointing(B, c) ==
    BagCardinality([h \in {g \in BagToSet(B) : g.cb = c} |-> B[h]])

\* The number of live shared_ptr handles whose control block pointer is c.
Owners(c) == Pointing(sp, c)

\* The number of live weak_ptr handles whose control block pointer is c.
Observers(c) == Pointing(wp, c)

\* C1: between the operations of one thread, use_count() of every shared_ptr
\* with a control block, and _use_count of every control block not yet
\* deallocated, is the number of live shared_ptr handles that point to the block.
C1_UseCountIsOwners ==
    Quiescent =>
        /\ \A h \in BagToSet(sp) :
            h.cb # Null => shared_use_count(h) = Owners(h.cb)
        /\ \A c \in Blocks :
            cb_state[c] = "allocated" => cb_use_count(c) = Owners(c)

\* C1 witness: one block is shared by two handles while another block has
\* lost all its owners and has been deallocated.
C1_Witness ==
    /\ Quiescent
    /\ \E c \in Blocks, d \in Blocks :
        /\ Owners(c) = 2 /\ use_count[c] = 2
        /\ cb_state[d] = "deleted" /\ frees[d] = 1

\* An operation on shared_ptr handles of control block c is still under way.
Dropping(c) == \E t \in Threads : pc[t] \in {"release", "deleter"} /\ cur[t].cb = c

\* C2: threads that copy and drop shared_ptr handles of one control block
\* invoke its deleter at most once, and exactly once when the managed pointer
\* is not null and every handle has been dropped.
C2_DeleterExactlyOnce ==
    \A c \in Blocks :
        /\ deleter_calls[c] <= 1
        /\ (cb_state[c] # "unallocated" /\ cb_ptr[c] # Null
              /\ Owners(c) = 0 /\ ~Dropping(c)) => deleter_calls[c] = 1

\* C2 witness: a block whose handles were dropped by several threads at once:
\* one thread has invoked the deleter while another one is still inside its
\* own drop of a handle of the same block.
C2_Witness ==
    \E c \in Blocks, t \in Threads, u \in Threads :
        /\ t # u
        /\ deleter_calls[c] = 1 /\ Owners(c) = 0
        /\ pc[t] = "dec_wref" /\ cur[t].cb = c
        /\ pc[u] = "deleter" /\ cur[u].cb # c

\* C3: the shared_ptr that lock() returned is empty or its resource has not
\* been passed to the deleter (and its control block has not been deallocated).
C3_LockResultAlive ==
    \A t \in Threads :
        pc[t] = "locked" /\ cur[t].res.cb # Null =>
            /\ deleter_calls[cur[t].res.cb] = 0
            /\ ~Dangling(cur[t].res.cb)

\* C4: a strong count that has reached zero stays zero.
C4_ZeroStaysZero ==
    [][\A c \in Blocks :
        cb_state[c] = "allocated" /\ use_count[c] = 0 => use_count'[c] = 0]_vars

\* C5: a control block is deallocated at most once.
C5_FreedAtMostOnce == \A c \in Blocks : frees[c] <= 1

\* C6: no live handle points to a deallocated control block, and no member of
\* a deallocated control block is accessed.
C6_NoDanglingBlock ==
    /\ \A h \in BagToSet(sp) : ~Dangling(h.cb)
    /\ \A w \in BagToSet(wp) : ~Dangling(w.cb)
    /\ fault # "use_after_free"

\* C7: bad_weak_ptr is never thrown inside lock() (where, lock() being
\* noexcept, it would end the process in std::terminate).
C7_LockNeverThrows == fault # "terminate"

\* Thread t leaves position p in this step.
Leaves(t, p) == pc[t] = p /\ pc'[t] # p

\* C8: shared_ptr(wp) on a weak_ptr whose block has strong count 0 throws
\* bad_weak_ptr, makes no handle and changes no count; with a positive strong
\* count it makes one handle of that block and adds exactly one to the count.
C8_PromoteContract ==
    [][\A t \in Threads :
        LET c == cur[t].cb IN
        /\ (Leaves(t, "ctor") /\ ~cur[t].nothrow /\ c # Null) =>
              IF use_count[c] = 0
              THEN /\ pc'[t] = "bad_weak_ptr"
                   /\ cur'[t] = NoLocals
                   /\ UNCHANGED <<sp, use_count, weak_use_count>>
              ELSE pc'[t] = "inc_ref" /\ cur'[t] = cur[t]
        /\ (Leaves(t, "inc_ref") /\ ~cur[t].nothrow /\ c # Null) =>
              /\ use_count' = [use_count EXCEPT ![c] = @ + 1]
              /\ sp' = Add(sp, Handle(cur[t].w.ptr, c, t))
              /\ UNCHANGED weak_use_count
              /\ pc'[t] = "idle"]_vars

\* C8 witness: the construction from an expired weak_ptr has thrown.
C8_Witness ==
    \E t \in Threads, w \in BagToSet(wp) :
        /\ pc[t] = "bad_weak_ptr"
        /\ w.owner = t /\ w.cb # Null /\ use_count[w.cb] = 0

NewWeak(w) ==
    /\ BagCardinality(wp') = BagCardinality(wp) + 1
    /\ CopiesIn(w, wp') = CopiesIn(w, wp) + 1

\* C10: constructing a weak_ptr leaves every use_count as it is and gives the
\* weak_ptr the pointer pair of its source; lock() on a weak_ptr whose block
\* has use_count k >= 1 returns a shared_ptr with the weak_ptr's pointer pair
\* and leaves the block with use_count k + 1.
C10_RoundTrip ==
    [][/\ \A w \in BagToSet(wp') :
            NewWeak(w) =>
                /\ UNCHANGED use_count
                /\ \E h \in BagToSet(sp) \cup BagToSet(wp) :
                        w.ptr = h.ptr /\ w.cb = h.cb
       /\ \A t \in Threads :
            /\ LET w == cur'[t].w
                   c == w.cb IN
               (pc[t] = "idle" /\ pc'[t] \in {"locked", "ctor"} /\ cur'[t].nothrow
                  /\ c # Null /\ use_count[c] >= 1)
                    => pc'[t] = "ctor" /\ cur'[t].cb = c /\ UNCHANGED use_count
            /\ LET w == cur[t].w
                   c == w.cb IN
               /\ (Leaves(t, "ctor") /\ cur[t].nothrow /\ c # Null /\ use_count[c] >= 1)
                    => pc'[t] = "inc_ref" /\ cur'[t] = cur[t] /\ UNCHANGED use_count
               /\ (Leaves(t, "inc_ref") /\ cur[t].nothrow /\ c # Null)
                    => LET r == Handle(w.ptr, c, t) IN
                       /\ pc'[t] = "locked"
                       /\ cur'[t].res = r
                       /\ sp' = Add(sp, r)
                       /\ use_count'[c] = use_count[c] + 1
                       /\ shared_use_count(r)' = use_count[c] + 1]_vars

\* C10 witness: lock() has returned a second owner of a block whose first
\* owner is still alive.
C10_Witness ==
    \E t \in Threads :
        LET s2 == cur[t].res IN
        /\ pc[t] = "locked"
        /\ s2.cb # Null /\ s2.ptr = s2.cb /\ cur[t].w.cb = s2.cb
        /\ CopiesIn(s2, sp) = 2
        /\ use_count[s2.cb] = 2

\* Every value of a raw pointer.
Pointers == {Null} \cup Blocks \cup {AliasPtr} \cup Objects

\* C11: a step that constructs a shared_ptr from a raw pointer p allocates
\* exactly one control block, whose _use_count is 1 and _weak_use_count is 1,
\* and makes one handle of that block with use_count() = 1 and get() = p.
C11_ConstructFromPointer ==
    [][\A c \in Blocks :
        (cb_state[c] = "unallocated" /\ cb_state'[c] = "allocated") =>
            /\ \A d \in Blocks \ {c} : cb_state'[d] = cb_state[d]
            /\ use_count'[c] = 1
            /\ weak_use_count'[c] = 1
            /\ Owners(c)' = 1
            /\ \E p \in Pointers, t \in Threads :
                LET h == Handle(p, c, t) IN
                /\ p = cb_ptr'[c]
                /\ BagIn(h, sp') /\ ~BagIn(h, sp)
                /\ shared_use_count(h)' = 1]_vars

\* C11 witness: a shared_ptr constructed from a pointer to an object and one
\* constructed from a null pointer (with a deleter), each the one owner of
\* its own control block.
C11_Witness ==
    \E c \in Blocks, d \in Blocks :
        /\ BagIn(Handle(c, c, 1), sp) /\ cb_ptr[c] = c
        /\ BagIn(Handle(Null, d, 1), sp) /\ cb_ptr[d] = Null
        /\ use_count[c] = 1 /\ weak_use_count[c] = 1
        /\ use_count[d] = 1 /\ weak_use_count[d] = 1

\* The number of deleter invocations on object r, by unique_ptr handles and by
\* control blocks.
Deletions(r) ==
    delete_calls[r]
      + BagCardinality([c \in {d \in Blocks : cb_ptr[d] = r /\ deleter_calls[d] > 0}
                            |-> deleter_calls[c]])

\* Somebody holds a pointer to object r and is to release it: the caller, a
\* unique_ptr or a control block.
Held(r) ==
    \/ r \in raw
    \/ BagIn([ptr |-> r], up)
    \/ \E c \in Blocks : cb_state[c] = "allocated" /\ cb_ptr[c] = r

\* C12: an object handed to a shared_ptr constructor (by make_shared) is never
\* left unowned and undestroyed, also when the allocation of the control block
\* fails.
C12_NoLeakOnAllocFailure ==
    \A r \in objects : Deletions(r) = 1 \/ (Deletions(r) = 0 /\ Held(r))

\* The counters and the control blocks are as they were.
CountsUnchanged ==
    UNCHANGED <<use_count, weak_use_count, cb_state, cb_ptr, deleter_calls, frees>>

\* Every control block has as many shared_ptr and weak_ptr handles as before.
FamiliesUnchanged ==
    \A c \in Blocks : Owners(c)' = Owners(c) /\ Observers(c)' = Observers(c)

\* C13: a move construction adds one handle that holds the source's pointer
\* pair and leaves the source empty, with every count as it was; a move
\* assignment from another handle does the same to its target and releases
\* what the target owned before, and nothing else; a swap of two shared_ptr
\* or two weak_ptr exchanges their pointer pairs and changes no count.
C13_MoveAndSwapFrame ==
    [][\A t \in Threads :
        LET empty == Handle(Null, Null, t) IN
        /\ MoveConstruct(t) =>
              /\ CountsUnchanged /\ FamiliesUnchanged
              /\ sp' = Add(sp, empty)
              /\ shared_use_count(empty)' = 0 /\ empty.ptr = Null
        /\ MoveAssign(t) =>
              \/ UNCHANGED vars
              \/ \E dst \in OwnedShared(t) :
                    /\ sp' = Add(Remove(sp, dst), empty)
                    /\ use_count' = IF dst.cb = Null THEN use_count
                                     ELSE [use_count EXCEPT ![dst.cb] = @ - 1]
                    /\ UNCHANGED <<weak_use_count, cb_state, cb_ptr, deleter_calls,
                                   frees, wp>>
                    /\ \A c \in Blocks : use_count'[c] = Owners(c)'
                    /\ pc'[t] = IF dst.cb # Null /\ use_count'[dst.cb] = 0
                                 THEN "deleter" ELSE "idle"
        /\ Swap(t) => CountsUnchanged /\ FamiliesUnchanged /\ sp' = sp
        /\ WeakSwap(t) => CountsUnchanged /\ FamiliesUnchanged /\ wp' = wp]_vars

\* C13 witness: a move assignment has carried the one owner of a block into a
\* handle that owned another block: the source is empty, the block that moved
\* still has one owner and count 1, the target's former block was released.
C13_Witness ==
    \E c \in Blocks, d \in Blocks :
        /\ sp = Add(SetToBag({Handle(c, c, 1)}), Handle(Null, Null, 1))
        /\ use_count[c] = 1 /\ deleter_calls[c] = 0
        /\ use_count[d] = 0 /\ deleter_calls[d] = 1 /\ cb_state[d] = "deleted"
        /\ pc[1] = "idle"

\* C14: the aliasing constructor on a handle that has a control block makes a
\* handle of the same block with get() = q and adds exactly one to the block's
\* _use_count, so that both report the same use_count(); and as long as a
\* handle of a block is alive, an alias included, the block's resource has not
\* been passed to the deleter and the block has not been deallocated.
C14_AliasSharesOwnership ==
    /\ [](\A h \in BagToSet(sp) :
            h.cb # Null =>
                /\ deleter_calls[h.cb] = 0
                /\ cb_state[h.cb] = "allocated"
                /\ shared_use_count(h) >= 1)
    /\ [][\A t \in Threads :
            AliasConstruct(t) =>
                \E h \in OwnedShared(t) :
                    LET a == Handle(AliasPtr, h.cb, t) IN
                    /\ sp' = Add(sp, a)
                    /\ h.cb # Null =>
                          /\ use_count' = [use_count EXCEPT ![h.cb] = @ + 1]
                          /\ shared_use_count(a)' = shared_use_count(h)'
                          /\ Owners(h.cb)' = Owners(h.cb) + 1
                    /\ UNCHANGED <<weak_use_count, cb_state, cb_ptr, deleter_calls,
                                   frees>>]_vars

\* C14 witness: an alias is the last owner of a block whose resource is another
\* pointer than the alias's, and the resource has not been deleted.
C14_Witness ==
    \E c \in Blocks, t \in Threads :
        /\ BagIn(Handle(AliasPtr, c, t), sp)
        /\ Owners(c) = 1 /\ use_count[c] = 1
        /\ cb_ptr[c] = c /\ deleter_calls[c] = 0 /\ cb_state[c] = "allocated"
        /\ \A u \in Threads : pc[u] = "idle"

\* C15: the conversion of a unique_ptr into a shared_ptr leaves the unique_ptr
\* empty, seeds exactly one new control block with the pointer it released, and
\* yields use_count() = 1 without a deleter call; the destructor of an empty
\* unique_ptr calls no deleter; an object owned by a control block is deleted
\* by the block only, at most once, and exactly once when its last owner is
\* gone.
C15_SharedFromUnique ==
    /\ [](\A c \in Blocks :
            cb_ptr[c] \in Objects =>
                LET r == cb_ptr[c] IN
                /\ delete_calls[r] = 0
                /\ r \notin raw /\ ~BagIn(Unique(r), up)
                /\ Deletions(r) <= 1
                /\ Owners(c) >= 1 => Deletions(r) = 0
                /\ (Owners(c) = 0 /\ ~Dropping(c)) => Deletions(r) = 1)
    /\ [][\A t \in Threads :
            /\ SharedFromUnique(t) =>
                  \E u \in BagToSet(up), c \in FreeBlocks :
                      LET h == Handle(unique_get(u), c, t) IN
                      /\ up' = Add(Remove(up, u), Unique(Null))
                      /\ ~unique_bool(Unique(Null))
                      /\ FreeBlocks' = FreeBlocks \ {c}
                      /\ cb_ptr'[c] = unique_get(u)
                      /\ sp' = Add(sp, h)
                      /\ shared_use_count(h)' = 1
                      /\ weak_use_count'[c] = 1
                      /\ UNCHANGED <<delete_calls, deleter_calls>>
            /\ (UniqueDestroy(t) /\ up' = Remove(up, Unique(Null))) =>
                  UNCHANGED delete_calls]_vars

\* C15 witness: an object that went from a unique_ptr to a shared_ptr has been
\* deleted by its control block, once, after the emptied unique_ptr was
\* destroyed.
C15_Witness ==
    \E c \in Blocks :
        /\ cb_ptr[c] \in Objects
        /\ deleter_calls[c] = 1 /\ delete_calls[cb_ptr[c]] = 0
        /\ cb_state[c] = "deleted"
        /\ up = EmptyBag

\* C19: release() empties the unique_ptr and hands its pointer to the caller
\* without a deleter call; reset(p) with a pointer the caller holds makes the
\* unique_ptr the holder of p, again without a deleter call on p; the
\* destructor calls the deleter on the stored pointer; so an object is deleted
\* at most once, and not while a unique_ptr or the caller holds it.
C19_ReleaseThenReset ==
    /\ [](\A r \in objects :
            /\ Deletions(r) <= 1
            /\ (r \in raw \/ BagIn(Unique(r), up)) => Deletions(r) = 0
            /\ CopiesIn(Unique(r), up) <= 1
            /\ ~(r \in raw /\ BagIn(Unique(r), up)))
    /\ [][\A t \in Threads :
            /\ UniqueRelease(t) =>
                  \E u \in BagToSet(up) :
                      /\ up' = Add(Remove(up, u), Unique(Null))
                      /\ ~unique_bool(Unique(Null)) /\ unique_get(Unique(Null)) = Null
                      /\ raw' = raw \cup ({unique_get(u)} \ {Null})
                      /\ UNCHANGED <<delete_calls, deleter_calls>>
            /\ UniqueResetPointer(t) =>
                  \E u \in BagToSet(up), p \in raw :
                      /\ up' = Add(Remove(up, u), Unique(p))
                      /\ raw' = raw \ {p}
                      /\ delete_calls'[p] = 0
                      /\ unique_get(u) = Null => UNCHANGED delete_calls
            /\ UniqueDestroy(t) =>
                  \E u \in BagToSet(up) :
                      /\ up' = Remove(up, u)
                      /\ unique_bool(u) => Deletions(unique_get(u))' = 1]_vars

\* C19 witness: the caller holds a released pointer, the unique_ptr it came
\* from is empty, and another object, released and taken back with reset(p),
\* has been deleted by the destructor.
C19_Witness ==
    \E r \in objects, q \in objects :
        /\ r \in raw /\ Deletions(r) = 0
        /\ BagIn(Unique(Null), up)
        /\ q # r /\ delete_calls[q] = 1

\* C16: a shared_ptr with a null control block pointer reports use_count() = 0
\* and get() = nullptr; a weak_ptr with a null control block pointer reports
\* use_count() = 0 and expired() = true.
C16_EmptyHandles ==
    /\ \A w \in BagToSet(wp) :
            w.cb = Null => weak_use_count_of(w) = 0 /\ weak_expired(w, FALSE)
    /\ \A h \in BagToSet(sp) :
            h.cb = Null => shared_use_count(h) = 0 /\ h.ptr = Null

\* C17: owner_before is usable and orders handles by their control block: a
\* program that compares two of its handles with owner_before (or owner_less)
\* is well-formed and the comparison returns.
C17_OwnerBeforeOrders == fault # "ill_formed"

\* C18: shared_from_this() on an object that a shared_ptr manages does not
\* throw bad_weak_ptr, does not call through a null control block, and returns
\* a new shared_ptr of the object's control block, whose _use_count grows by
\* one.
C18_SharedFromThis ==
    [][\A t \in Threads :
        LET obj == cur[t].obj IN
        /\ (Leaves(t, "ctor") /\ obj # Null) => pc'[t] = "inc_ref"
        /\ (Leaves(t, "inc_ref") /\ obj # Null) =>
              \E c \in Blocks :
                  /\ cb_ptr[c] = obj
                  /\ fault' = "none"
                  /\ sp' = Add(sp, Handle(obj, c, t))
                  /\ use_count' = [use_count EXCEPT ![c] = @ + 1]]_vars

\* C20: a copy assignment whose source has the target's control block (the
\* target itself included) first adds one to the block's _use_count and then,
\* destroying the temporary, takes one off again while the target still owns
\* the block: the count ends as it began, at least 1, and neither the deleter
\* runs nor is the block deallocated, also for a sole owner.
C20_SelfAssignSafe ==
    /\ [](\A t \in Threads :
            (pc[t] = "release" /\ cur[t].cb # Null) =>
                use_count[cur[t].cb] = Owners(cur[t].cb) + 1)
    /\ [][\A t \in Threads :
            /\ CopyAssign(t) =>
                  \A c \in Blocks :
                      (c = cur'[t].cb /\ Owners(c)' = Owners(c)) =>
                          /\ use_count'[c] = use_count[c] + 1
                          /\ UNCHANGED <<deleter_calls, frees, cb_state>>
            /\ \A c \in Blocks :
                  (Leaves(t, "release") /\ c = cur[t].cb /\ Owners(c) >= 1) =>
                      /\ use_count'[c] = use_count[c] - 1
                      /\ use_count'[c] = Owners(c)'
                      /\ pc'[t] = "idle"
                      /\ UNCHANGED <<sp, deleter_calls, frees, cb_state>>]_vars

\* C20 witness: the sole owner of a block is being assigned to itself: the
\* temporary has been swapped in and is about to be destroyed.
C20_Witness ==
    \E c \in Blocks :
        /\ pc[1] = "release" /\ cur[1].cb = c
        /\ sp = SetToBag({Handle(c, c, 1)})
        /\ use_count[c] = 2 /\ deleter_calls[c] = 0

\* C21: between operations, _weak_use_count of a control block that has not
\* been deallocated is the number of live weak_ptr handles that point to it,
\* plus one while its _use_count is positive.
C21_WeakCountIsObservers ==
    Quiescent =>
        \A c \in Blocks :
            cb_state[c] = "allocated" =>
                weak_use_count[c] = Observers(c) + (IF use_count[c] > 0 THEN 1 ELSE 0)

\* C22: a control block is deallocated only when its strong count is zero: no
\* deallocated block has a positive _use_count.
C22_FreedOnlyAfterZero ==
    \A c \in Blocks : cb_state[c] = "deleted" => use_count[c] = 0

\* C23: dec_ref() invokes the deleter before it releases the collective weak
\* unit: the thread that leaves the `--_weak_use_count` of dec_ref() on a block
\* with a managed pointer has the deleter invocation behind it, the deleter
\* step itself touches neither the weak count nor the block's allocation, and
\* so, whatever a concurrent ~weak_ptr does, no block with a managed pointer is
\* deallocated before its resource has been passed to the deleter.
C23_DeleterBeforeWeakUnit ==
    /\ [](\A c \in Blocks :
            (cb_state[c] = "deleted" /\ cb_ptr[c] # Null) => deleter_calls[c] >= 1)
    /\ [][\A t \in Threads :
            LET c == cur[t].cb IN
            /\ (Leaves(t, "deleter") /\ ~Dangling(c)) =>
                  /\ pc'[t] = "dec_wref"
                  /\ cb_ptr[c] # Null => deleter_calls'[c] >= 1
                  /\ UNCHANGED <<weak_use_count, cb_state, frees>>
            /\ (Leaves(t, "dec_wref") /\ ~Dangling(c) /\ cb_ptr[c] # Null) =>
                  deleter_calls[c] >= 1]_vars

\* C23 witness: the owner has seen the strong count reach zero and has not
\* yet invoked the deleter, while the observer is free to destroy the last
\* weak_ptr of the block: the collective weak unit is what will keep the
\* block allocated for the deleter.
C23_Witness ==
    \E c \in Blocks :
        /\ pc[1] = "deleter" /\ cur[1].cb = c /\ pc[2] = "idle"
        /\ cb_state[c] = "allocated" /\ cb_ptr[c] # Null
        /\ deleter_calls[c] = 0 /\ use_count[c] = 0
        /\ wp = SetToBag({Handle(c, c, 2)})
        /\ weak_use_count[c] = 2

\* C24: the deleter of a control block has been invoked only if no live
\* shared_ptr points to the block.
C24_NoDeleterWhileOwned ==
    \A c \in Blocks : deleter_calls[c] >= 1 => Owners(c) = 0

\* The control block c has had its resource passed to the deleter (when it
\* manages one) and has been deallocated.
Freed(c) ==
    /\ cb_state[c] = "deleted"
    /\ cb_ptr[c] # Null => deleter_calls[c] >= 1

\* Every handle that pointed to the control block c is gone.
Abandoned(c) == cb_state[c] # "unallocated" /\ Owners(c) = 0 /\ Observers(c) = 0

\* C25: no leak.  Once no shared_ptr and no weak_ptr points to a control
\* block any more, the threads that dropped the last handles go on to pass the
\* resource to the deleter and to deallocate the block: when they are idle
\* again the block is freed, and every behaviour in which they keep running
\* reaches that state.
C25_NoLeak ==
    /\ [](\A c \in Blocks :
            (Abandoned(c) /\ \A t \in Threads : pc[t] = "idle") => Freed(c))
    /\ \A c \in Blocks : Abandoned(c) ~> Freed(c)

\* C25 witness: no handle points to a block any more and the thread that
\* dropped its last shared_ptr is inside dec_ref(), about to invoke the
\* deleter, with the collective weak unit still to release; another block has
\* already been through all of it once.
C25_Witness ==
    \E c \in Blocks, t \in Threads :
        /\ Abandoned(c) /\ cb_state[c] = "allocated" /\ cb_ptr[c] # Null
        /\ pc[t] = "deleter" /\ cur[t].cb = c
        /\ weak_use_count[c] = 1 /\ deleter_calls[c] = 0
        /\ \E d \in Blocks : d # c /\ Freed(d) /\ frees[d] = 1

\* Thread t takes a step of an operation on a weak_ptr: a construction from a
\* shared_ptr or a weak_ptr, an assignment, a reset, a swap, a destruction, or
\* the `delete this` that ends the dec_wref() of one of them.
WeakOperationStep(t) ==
    \/ WeakFromShared(t)
    \/ WeakCopy(t, Threads)
    \/ WeakAssign(t)
    \/ WeakReleaseTemporary(t)
    \/ WeakReset(t)
    \/ WeakSwap(t)
    \/ WeakDestroy(t)
    \/ DeleteThisStep(t)

\* C26: no step of an operation on a weak_ptr invokes a deleter, changes a
\* strong count or a shared_ptr; such a step changes weak counts and weak_ptr
\* handles only, and where it ends in `delete this` the block it deallocates
\* has strong count zero.
C26_WeakOpsFrame ==
    [][\A t \in Threads :
        WeakOperationStep(t) =>
            /\ UNCHANGED <<use_count, deleter_calls, sp, cb_ptr>>
            /\ \A c \in Blocks :
                  cb_state'[c] # cb_state[c] =>
                      /\ cb_state[c] = "allocated" /\ cb_state'[c] = "deleted"
                      /\ use_count[c] = 0 /\ weak_use_count[c] = 0]_vars

\* C26 witness: a weak_ptr has been assigned from a weak_ptr of another block
\* whose shared_ptr is alive; the temporary holds the target's old block,
\* which has no shared_ptr left and whose last weak reference it is about to
\* release.
C26_Witness ==
    \E c \in Blocks, d \in Blocks :
        /\ c # d
        /\ pc[1] = "weak_release" /\ cur[1].cb = d
        /\ use_count[d] = 0 /\ weak_use_count[d] = 1 /\ Observers(d) = 0
        /\ cb_state[d] = "allocated" /\ deleter_calls[d] = 1
        /\ Observers(c) = 2 /\ weak_use_count[c] = 3 /\ use_count[c] = 1

\* C27: reset() on a shared_ptr with a control block takes exactly one off the
\* block's strong count and leaves the handle empty (get() == nullptr,
\* use_count() == 0); reset(p) does the same to the old block and makes the
\* handle the only owner of a new control block for p (use_count() == 1).
\* Neither touches another block's count, and the resource of the old block
\* is passed to the deleter once, by the dec_ref() of the reset, exactly when
\* the handle was its last owner.
C27_ResetContract ==
    /\ [](\A c \in Blocks :
            /\ deleter_calls[c] <= 1
            /\ (cb_state[c] # "unallocated" /\ cb_ptr[c] # Null /\ ~Dropping(c)) =>
                  (deleter_calls[c] = 1 <=> Owners(c) = 0))
    /\ [][\A t \in Threads, p \in Pointers, c \in Blocks :
            LET h == Handle(p, c, t)
                empty == Handle(Null, Null, t)
                old == [use_count EXCEPT ![c] = @ - 1]
                last == use_count[c] = 1 IN
            /\ (CopiesIn(h, sp') < CopiesIn(h, sp) /\ Reset(t)) =>
                  /\ sp' = Add(Remove(sp, h), empty)
                  /\ shared_use_count(empty)' = 0
                  /\ use_count' = old
                  /\ Owners(c)' = Owners(c) - 1
                  /\ pc'[t] = IF last THEN "deleter" ELSE "idle"
                  /\ last => cur'[t].cb = c
                  /\ UNCHANGED <<deleter_calls, cb_state, weak_use_count>>
            /\ \A d \in Blocks :
                  LET new == Handle(d, d, t) IN
                  (CopiesIn(h, sp') < CopiesIn(h, sp) /\ cb_state'[d] # cb_state[d]
                     /\ ResetPointer(t)) =>
                      /\ sp' = Add(Remove(sp, h), new)
                      /\ cb_state[d] = "unallocated" /\ cb_state'[d] = "allocated"
                      /\ cb_ptr'[d] = new.ptr
                      /\ use_count' = [old EXCEPT ![d] = 1]
                      /\ Owners(c)' = Owners(c) - 1
                      /\ Owners(d)' = 1 /\ shared_use_count(new)' = 1
                      /\ pc'[t] = IF last THEN "deleter" ELSE "idle"
                      /\ last => cur'[t].cb = c
                      /\ UNCHANGED deleter_calls]_vars

\* C27 witness: a thread holds the only owner of a new block, made by
\* reset(p) on the last owner of an older block: the old block's strong count
\* is zero and the thread is inside dec_ref(), about to invoke its deleter.
C27_Witness ==
    \E c \in Blocks, d \in Blocks, t \in Threads :
        /\ c < d
        /\ pc[t] = "deleter" /\ cur[t].cb = c
        /\ use_count[c] = 0 /\ Owners(c) = 0 /\ deleter_calls[c] = 0
        /\ use_count[d] = 1 /\ Owners(d) = 1
        /\ sp = SetToBag({Handle(d, d, t)})

\* C28: a replacement whose temporary cannot be built leaves the target as it
\* was.  The step in which `new control_block` throws inside reset(p) changes
\* no handle, no count and no control block; while the exception is on its way
\* to the caller the handle reset(p) was called on is alive with the pointer
\* and control block it had, and the block's strong count is the number of its
\* owners.  Copy assignment builds its temporary with the copy constructor,
\* which allocates nothing: reset(p) is the only step that throws.
C28_StrongExceptionSafety ==
    /\ [](\A t \in Threads :
            pc[t] = "bad_alloc" =>
                LET h == cur[t].res IN
                /\ h.owner = t /\ CopiesIn(h, sp) >= 1
                /\ h.cb # Null =>
                      /\ cb_state[h.cb] = "allocated"
                      /\ shared_use_count(h) = Owners(h.cb)
                      /\ weak_use_count[h.cb] = Observers(h.cb) + 1)
    /\ [][\A t \in Threads :
            (pc[t] # "bad_alloc" /\ pc'[t] = "bad_alloc") =>
                /\ ResetPointerThrows(t)
                /\ UNCHANGED <<sp, wp, use_count, weak_use_count, cb_state, cb_ptr,
                               deleter_calls, frees>>]_vars

\* C28 witness: reset(p) has thrown on a handle that shares its block with
\* another shared_ptr and a weak_ptr; the counts are what they were.
C28_Witness ==
    \E c \in Blocks :
        /\ pc[1] = "bad_alloc" /\ cur[1].res = Handle(c, c, 1)
        /\ CopiesIn(Handle(c, c, 1), sp) = 2
        /\ use_count[c] = 2 /\ weak_use_count[c] = 2 /\ Observers(c) = 1

\* C29: dynamic_pointer_cast on a shared_ptr of a control block whose object
\* is not of the target type adds an empty shared_ptr (null pointer, null
\* control block, use_count() 0) and changes no strong and no weak count;
\* when the object is of the target type it adds a shared_ptr to the same
\* object with the source's control block and adds exactly one to that block's
\* strong count, and to no other count.  The result is an owner like any
\* other: no live shared_ptr has a block whose deleter has run.
C29_DynamicPointerCast ==
    /\ [](\A h \in BagToSet(sp) :
            h.cb # Null => cb_state[h.cb] = "allocated" /\ deleter_calls[h.cb] = 0)
    /\ [][\A t \in Threads, p \in Pointers, c \in Blocks :
            LET h == Handle(p, c, t)
                empty == Handle(Null, Null, t) IN
            (CopiesIn(h, sp) >= 1 /\ DynamicPointerCast(t)) =>
                /\ dynamic_pointer_cast(t, h, FALSE) =>
                      /\ sp' = Add(sp, empty)
                      /\ shared_use_count(empty)' = 0
                      /\ UNCHANGED <<use_count, weak_use_count>>
                /\ (p # Null /\ dynamic_pointer_cast(t, h, TRUE)) =>
                      /\ sp' = Add(sp, h)
                      /\ Owners(c)' = Owners(c) + 1
                      /\ use_count' = [use_count EXCEPT ![c] = @ + 1]
                      /\ shared_use_count(h)' = shared_use_count(h) + 1
                      /\ UNCHANGED weak_use_count]_vars

\* C29 witness: a failed cast has returned: its empty result lives next to
\* the source, which is still the only owner of its block (strong count 1),
\* and the block's weak_ptr is still counted (weak count 2).
C29_Witness ==
    \E c \in Blocks :
        /\ pc[1] = "idle"
        /\ CopiesIn(Handle(c, c, 1), sp) = 1
        /\ CopiesIn(Handle(Null, Null, 1), sp) = 1
        /\ use_count[c] = 1 /\ weak_use_count[c] = 2 /\ Observers(c) = 1

\* C30: a shared_ptr constructed from a null pointer (with a custom deleter)
\* owns a control block: the step allocates one whose strong count is 1, and
\* the handle reports use_count() == 1, get() == nullptr and operator bool
\* false.  The deleter of such a block is never invoked, and the block is
\* deallocated exactly once: when no shared_ptr points to it any more and the
\* threads are idle it has been deallocated, and never twice.
C30_NullWithDeleter ==
    /\ [](\A c \in Blocks :
            (cb_state[c] # "unallocated" /\ cb_ptr[c] = Null) =>
                /\ deleter_calls[c] = 0
                /\ frees[c] <= 1
                /\ (Owners(c) = 0 /\ \A t \in Threads : pc[t] = "idle") =>
                      cb_state[c] = "deleted" /\ frees[c] = 1
                /\ \A h \in BagToSet(sp) :
                      h.cb = c => /\ cb_state[c] = "allocated"
                                  /\ shared_get(h) = Null /\ ~shared_bool(h)
                                  /\ shared_use_count(h) = Owners(c))
    /\ [][\A t \in Threads, c \in Blocks :
            LET h == Handle(Null, c, t) IN
            (cb_state[c] = "unallocated" /\ ConstructFromPointer(t)
               /\ cb_state'[c] = "allocated" /\ cb_ptr'[c] = Null) =>
                /\ sp' = Add(sp, h)
                /\ shared_use_count(h)' = 1
                /\ weak_use_count'[c] = 1
                /\ UNCHANGED <<deleter_calls, frees>>]_vars

\* C30 witness: a block constructed for a null pointer has lost its last
\* owner and has been deallocated, once, without a deleter invocation; the
\* last owner of a second such block has been dropped too, and the thread
\* that dropped it is between the skipped deleter and the release of the
\* collective weak unit.
C30_Witness ==
    \E c \in Blocks, d \in Blocks, t \in Threads :
        /\ c # d
        /\ cb_ptr[c] = Null /\ cb_state[c] = "deleted"
        /\ frees[c] = 1 /\ deleter_calls[c] = 0
        /\ cb_ptr[d] = Null /\ cb_state[d] = "allocated"
        /\ pc[t] = "dec_wref" /\ cur[t].cb = d /\ deleter_calls[d] = 0

\* C31: lock() and shared_ptr(wp) on a weak_ptr whose control block pointer
\* is null never call a member function through that null pointer: no thread
\* arrives at `_control_block->inc_ref()` with a null _control_block, and the
\* process never dereferences one.
C31_EmptyLockSafe ==
    /\ fault # "null_deref"
    /\ \A t \in Threads : pc[t] = "inc_ref" => cur[t].cb # Null

\* C32: the deleter of a unique_ptr runs on pointers the handles owned only,
\* on each at most once, and exactly once on an owned object that neither a
\* unique_ptr nor the caller (after release()) holds any more.
C32_UniqueDeletesOnce ==
    \A r \in Objects :
        /\ delete_calls[r] <= 1
        /\ delete_calls[r] >= 1 => r \in objects
        /\ r \in objects =>
              (delete_calls[r] = 1 <=> (r \notin raw /\ ~BagIn(Unique(r), up)))

\* C33: a move assignment between unique_ptr handles loses no object and
\* deletes none twice: an object that a unique_ptr held before the step and
\* none holds after it has been passed to the deleter, once, in the step; an
\* object a unique_ptr still holds has not been deleted; no object is held by
\* two handles, and one handle (the source) is empty afterwards unless the
\* handle was assigned to itself, in which case nothing changes.
C33_UniqueMoveAssign ==
    [][\A t \in Threads :
        (UniqueMoveAssign(t) \/ UniqueMoveAssignOverwrite(t)) =>
            /\ BagCardinality(up') = BagCardinality(up)
            /\ up' # up => BagIn(Unique(Null), up')
            /\ \A r \in objects :
                /\ CopiesIn(Unique(r), up') <= 1
                /\ BagIn(Unique(r), up') =>
                      BagIn(Unique(r), up) /\ delete_calls'[r] = delete_calls[r]
                /\ (BagIn(Unique(r), up) /\ ~BagIn(Unique(r), up')) =>
                      delete_calls'[r] = delete_calls[r] + 1]_vars

\* The handles of the minimal shared_ptr that share counter c.
MinimalSharing(c) ==
    LET S == {h \in BagToSet(sp) : h.ptr # Null /\ h.cb = c}
        RECURSIVE Sum(_)
        Sum(T) == IF T = {} THEN 0
                  ELSE LET h == CHOOSE x \in T : TRUE
                       IN CopiesIn(h, sp) + Sum(T \ {h})
    IN Sum(S)

\* A thread is between the decrement that saw zero on counter c and the
\* deletes.
MinimalDeleting(c) ==
    \E t \in Threads : pc[t] = "minimal_delete" /\ cur[t].cb = c

\* C34: under every interleaving of copies and destructions of minimal
\* shared_ptr handles the program stays defined, object and counter are each
\* deleted at most once and together, the counter never exceeds the number of
\* handles that share it and is at least 1 while one does, and the deletes
\* happen exactly when the counter has dropped to zero and no handle shares
\* it any more: destroying an empty handle, or one of several, deletes nothing.
C34_MinimalThreadSafe ==
    /\ fault = "none"
    /\ \A c \in Blocks :
        /\ deleter_calls[c] <= 1
        /\ frees[c] = deleter_calls[c]
        /\ cb_state[c] = "deleted" <=> frees[c] = 1
        /\ cb_state[c] = "allocated" =>
            /\ use_count[c] <= MinimalSharing(c)
            /\ IF MinimalDeleting(c)
               THEN use_count[c] = 0 /\ MinimalSharing(c) = 0
               ELSE use_count[c] >= 1
        /\ cb_state[c] = "deleted" => MinimalSharing(c) = 0

====
